---------------------------- MODULE Spec2Model ----------------------------
(***************************************************************************)
(* LT codes file bridge: the LT encoder (tools.lt_encoder) and the         *)
(* incremental peeling decoder (tools.LTDecoder), with the demo driver of  *)
(* prototype.py feeding encoder packets into the decoder.                  *)
(*                                                                         *)
(* Bytes are integers 0..255, byte strings are sequences of bytes, Python  *)
(* lists are sequences (block addresses stay 0-based as in the source),    *)
(* dicts are functions whose DOMAIN is the key set.                        *)
(***************************************************************************)
EXTENDS Integers, Sequences, FiniteSets, TLC

\* Longest payload fed to the encoder, in bytes.
MaxFileSize == 5

\* Most add_packet calls made on one decoder.
MaxPackets == 3

\* Arbitrary packets fed before the fair stream's degree-1 packets (FairSpec).
MaxNoise == 2

\* Block sizes the driver may pick.
BlockSizes == {2, 3}

(***************************************************************************)
(* Byte-string helpers                                                     *)
(***************************************************************************)

Min(a, b) == IF a <= b THEN a ELSE b

\* math.ceil(a / b) for a >= 0, b # 0
CeilDiv(a, b) == IF b > 0 THEN (a + b - 1) \div b ELSE 0 - (a \div (0 - b))

\* Python's a ^ b on two bytes.
RECURSIVE XorByte(_, _)
XorByte(a, b) ==
    IF a = 0 THEN b
    ELSE IF b = 0 THEN a
    ELSE (((a % 2) + (b % 2)) % 2) + 2 * XorByte(a \div 2, b \div 2)

\* (a ^ b for a, b in zip(x, y)): zip stops at the shorter operand.
XorBytes(x, y) == [j \in 1..Min(Len(x), Len(y)) |-> XorByte(x[j], y[j])]

\* Faulty variant of Ljust: the block is not padded.
LjustNone(block, width) == block

\* bytes.ljust(width, b'\x00')
Ljust(block, width) ==
    IF Len(block) >= width THEN block
    ELSE [j \in 1..width |-> IF j <= Len(block) THEN block[j] ELSE 0]

\* file_data[lo:hi] for 0 <= lo <= hi (Python slicing clamps hi to the length)
Slice(data, lo, hi) == SubSeq(data, Min(lo, Len(data)) + 1, Min(hi, Len(data)))

\* Python's `x in list`
InList(x, list) == \E j \in 1..Len(list) : list[j] = x

\* list.remove(x): drops the first occurrence of x (x is known to occur).
ListRemove(list, x) ==
    LET first == CHOOSE j \in 1..Len(list) :
                     list[j] = x /\ \A h \in 1..(j - 1) : list[h] # x
    IN  [j \in 1..(Len(list) - 1) |-> IF j < first THEN list[j] ELSE list[j + 1]]

\* CPython's set of small non-negative integers (hash(i) = i): an open
\* hash table of mask + 1 slots, -1 for an empty slot.  A key goes to the
\* first empty slot of its probe sequence: slot i and, when i + 9 <= mask,
\* the nine slots after it, then the same from i = (5 * i + 1 + perturb)
\* & mask with perturb shifted right by 5.
RECURSIVE SetProbe(_, _, _, _)
SetProbe(table, mask, i, perturb) ==
    LET probes == IF i + 9 <= mask THEN 9 ELSE 0
        free   == {j \in i..(i + probes) : table[j] = -1}
    IN  IF free # {} THEN CHOOSE j \in free : \A h \in free : j <= h
        ELSE SetProbe(table, mask,
                      (5 * i + 1 + (perturb \div 32)) % (mask + 1),
                      perturb \div 32)

\* The keys of a table in slot order: the order in which the set is iterated.
TableSeq(table, mask) ==
    SelectSeq([j \in 1..(mask + 1) |-> table[j - 1]], LAMBDA x : x # -1)

\* The keys of the sequence `keys`, from position n on, put into a table.
RECURSIVE SetInsertClean(_, _, _, _)
SetInsertClean(table, mask, keys, n) ==
    IF n > Len(keys) THEN table
    ELSE SetInsertClean(
             [table EXCEPT ![SetProbe(table, mask, keys[n] % (mask + 1),
                                      keys[n])] = keys[n]],
             mask, keys, n + 1)

\* The least table size above minused, doubling from size.
RECURSIVE SetTableSize(_, _)
SetTableSize(size, minused) ==
    IF size > minused THEN size ELSE SetTableSize(2 * size, minused)

\* set.add(key) for a key the set does not hold: the key is put in, and a
\* table filled to three fifths of its mask is rebuilt for four times its
\* key count (twice, above 50000 keys), the keys re-entered in slot order.
\* No key is ever taken out before, so the keys used are the slots filled.
SetAdd(set, key) ==
    LET table == SetInsertClean(set.table, set.mask, <<key>>, 1)
        fill  == set.fill + 1
    IN  IF 5 * fill < 3 * set.mask
        THEN [mask |-> set.mask, fill |-> fill, table |-> table]
        ELSE LET mask == SetTableSize(8, IF fill > 50000 THEN 2 * fill
                                         ELSE 4 * fill) - 1
             IN  [mask  |-> mask,
                  fill  |-> fill,
                  table |-> SetInsertClean([j \in 0..mask |-> -1], mask,
                                           TableSeq(table, set.mask), 1)]

\* The set object that holds the keys S, added in ascending order to the
\* set object `set`: packet ids are added to block_to_packets[b] as they
\* are handed out, and none is taken away before the set is listed.
RECURSIVE SetBuild(_, _)
SetBuild(set, S) ==
    IF S = {} THEN set
    ELSE LET m == CHOOSE x \in S : \A y \in S : x <= y
         IN  SetBuild(SetAdd(set, m), S \ {m})

\* list(S) for a set of packet ids: the keys in the order of their slots.
\* Ids below 8 come out ascending; list({1, 8}) is [8, 1].
SetToSeq(S) ==
    LET set == SetBuild([mask |-> 7, fill |-> 0, table |-> [j \in 0..7 |-> -1]],
                        S)
    IN  TableSeq(set.table, set.mask)

\* defaultdict(set)[k] as a read: the stored set, or the empty default.
Get(d, k) == IF k \in DOMAIN d THEN d[k] ELSE {}

\* dict[k] = v (insert or replace)
Put(d, k, v) == [x \in (DOMAIN d) \cup {k} |-> IF x = k THEN v ELSE d[x]]

(***************************************************************************)
(* generate_txt.generate_file: the demo payload, "abcdefg " repeated.      *)
(***************************************************************************)
pattern == <<97, 98, 99, 100, 101, 102, 103, 32>>

generate_file(byte_count) == [j \in 1..byte_count |-> pattern[((j - 1) % Len(pattern)) + 1]]

(***************************************************************************)
(* tools.lt_encoder                                                        *)
(***************************************************************************)

\* num_blocks = math.ceil(len(file_data) / block_size)
NumBlocks(file_data, block_size) == CeilDiv(Len(file_data), block_size)

\* blocks[i] = file_data[i * block_size:(i + 1) * block_size], i = 0..num_blocks-1
blocks(file_data, block_size) ==
    [i \in 0..(NumBlocks(file_data, block_size) - 1) |->
        Slice(file_data, i * block_size, (i + 1) * block_size)]

\* The block as the encoder XORs it: zero-padded on the right to block_size.
PaddedBlock(file_data, block_size, i) ==
    Ljust(blocks(file_data, block_size)[i], block_size)

\* The packet payload built for a sampled index list (non-empty).
RECURSIVE XorBlocks(_, _, _, _)
XorBlocks(file_data, block_size, indices, n) ==
    IF n = 1 THEN PaddedBlock(file_data, block_size, indices[1])
    ELSE XorBytes(XorBlocks(file_data, block_size, indices, n - 1),
                  PaddedBlock(file_data, block_size, indices[n]))

EncodePacket(file_data, block_size, indices) ==
    XorBlocks(file_data, block_size, indices, Len(indices))

\* choose_degree(mu): random.choices over 1..len(mu) with weights mu.  Every
\* weight of the robust soliton distribution is positive for the block counts
\* modelled here, so every degree 1..k can be drawn.
choose_degree(k) == 1..k

\* Faulty variant of sample: addresses drawn with replacement.
sample_with_replacement(num_blocks, d) == [1..d -> 0..(num_blocks - 1)]

\* The number of outcomes of the d draws random.sample makes for d
\* addresses out of num_blocks: the first draw is below num_blocks, each
\* further draw below one less.
RECURSIVE Arrangements(_, _)
Arrangements(num_blocks, d) ==
    IF d = 0 THEN 1 ELSE num_blocks * Arrangements(num_blocks - 1, d - 1)

\* The selection loop of random.sample over a pool of addresses, for the
\* outcome numbered r of its draws (the draw in play is r modulo the
\* number m of positions in play, the later draws are r \div m): the drawn
\* position of the pool is taken, and the last position in play is moved
\* into it.
RECURSIVE SamplePick(_, _, _, _)
SamplePick(pool, d, r, result) ==
    IF Len(result) = d THEN result
    ELSE LET m == Len(pool) - Len(result)
             j == r % m
         IN  SamplePick([pool EXCEPT ![j + 1] = pool[m]], d, r \div m,
                        Append(result, pool[j + 1]))

\* The list random.sample(range(num_blocks), d) returns for the outcome
\* numbered r of its draws.
SampleList(num_blocks, d, r) ==
    SamplePick([j \in 1..num_blocks |-> j - 1], d, r, <<>>)

\* random.sample(range(num_blocks), d): the lists of d distinct addresses,
\* in every order.
sample(num_blocks, d) ==
    {SampleList(num_blocks, d, r) :
        r \in 0..(Arrangements(num_blocks, d) - 1)}

\* Everything one `next(encoder_gen)` can yield.
lt_encoder(file_data, block_size) ==
    LET k == NumBlocks(file_data, block_size)
    IN  {[indices |-> s, pkt |-> EncodePacket(file_data, block_size, s)] :
            s \in UNION {sample(k, d) : d \in choose_degree(k)}}

(***************************************************************************)
(* tools.choose_block_size, lines 138-156.  The call either returns a      *)
(* block size or raises ValueError; the outcome is a record                *)
(* [status, block_size] with status "returned" or "ValueError".            *)
(***************************************************************************)

\* Greatest file size and greatest payload limit a planner call is given.
MaxPlanFileSize == 30
MaxPlanPayload == 5

\* Faulty variant of the loop: num_blocks is rounded down.
RECURSIVE choose_block_size_loop_floor(_, _, _)
choose_block_size_loop_floor(file_size, max_payload_size, block_size) ==
    IF block_size < 1
    THEN [status |-> "ValueError", block_size |-> 0]
    ELSE LET nb == file_size \div block_size
             bitmask_size == CeilDiv(nb, 8)
         IN  IF bitmask_size + block_size <= max_payload_size
             THEN [status |-> "returned", block_size |-> block_size]
             ELSE choose_block_size_loop_floor(file_size, max_payload_size,
                                               block_size - 1)

\* for block_size in range(max_payload_size - 1, 0, -1), from block_size on:
\* the first block size that fits is returned; the loop running out raises.
RECURSIVE choose_block_size_loop(_, _, _)
choose_block_size_loop(file_size, max_payload_size, block_size) ==
    IF block_size < 1
    THEN [status |-> "ValueError", block_size |-> 0]
    ELSE LET nb == CeilDiv(file_size, block_size)
             bitmask_size == CeilDiv(nb, 8)
         IN  IF bitmask_size + block_size <= max_payload_size
             THEN [status |-> "returned", block_size |-> block_size]
             ELSE choose_block_size_loop(file_size, max_payload_size,
                                         block_size - 1)

\* Faulty variant of choose_block_size: the search starts one lower.
choose_block_size_from_below(file_size, max_payload_size) ==
    choose_block_size_loop(file_size, max_payload_size, max_payload_size - 2)

\* choose_block_size(file_size, max_payload_size)
choose_block_size(file_size, max_payload_size) ==
    choose_block_size_loop(file_size, max_payload_size, max_payload_size - 1)

(***************************************************************************)
(* showcodes_header.cal_size, lines 11-19.  The call returns the pair      *)
(* (k, block_size) or None; the outcome is a record [status, k,            *)
(* block_size] with status "returned" or "None".                           *)
(***************************************************************************)

\* Faulty variant of the loop: the candidates are tried in ascending order.
RECURSIVE cal_size_ascending_loop(_, _, _)
cal_size_ascending_loop(file_size, qr_size, block_size) ==
    IF block_size >= qr_size
    THEN [status |-> "None", k |-> 0, block_size |-> 0]
    ELSE LET k == CeilDiv(file_size, block_size)
             k_to_bytes == CeilDiv(k, 8)
         IN  IF k_to_bytes + block_size = qr_size
             THEN [status |-> "returned", k |-> k, block_size |-> block_size]
             ELSE cal_size_ascending_loop(file_size, qr_size, block_size + 1)

\* Faulty variant of cal_size: range(1, qr_size) is not reversed.
cal_size_ascending(file_size, qr_size) ==
    cal_size_ascending_loop(file_size, qr_size, 1)

\* for block_size in reversed(range(1, qr_size)), from block_size on: the
\* first block size that fills qr_size exactly is returned with its k.
RECURSIVE cal_size_loop(_, _, _)
cal_size_loop(file_size, qr_size, block_size) ==
    IF block_size < 1
    THEN [status |-> "None", k |-> 0, block_size |-> 0]
    ELSE LET k == CeilDiv(file_size, block_size)
             k_to_bytes == CeilDiv(k, 8)
         IN  IF k_to_bytes + block_size = qr_size
             THEN [status |-> "returned", k |-> k, block_size |-> block_size]
             ELSE cal_size_loop(file_size, qr_size, block_size - 1)

\* cal_size(file_size, qr_size)
cal_size(file_size, qr_size) == cal_size_loop(file_size, qr_size, qr_size - 1)

(***************************************************************************)
(* The frame codec: show_codes.indices_to_bitmask (the same lines are      *)
(* inline in ui_gradio.encode_packet_with_bitmask_web) and                 *)
(* readcodes_zbar.bitmask_to_indices.  A bitmask is a sequence of bytes,   *)
(* first byte first.  indices_to_bitmask is modelled for indices in        *)
(* [0, 8 * ceil(num_blocks / 8)), where bitmask[i // 8] exists.            *)
(***************************************************************************)

\* Greatest block count a frame is built for.
MaxFrameBlocks == 9

\* byte & (1 << bit) is not zero
TestBit(byte, bit) == (byte \div (2 ^ bit)) % 2 = 1

\* byte | (1 << bit)
SetBit(byte, bit) == IF TestBit(byte, bit) THEN byte ELSE byte + 2 ^ bit

\* bitmask.reverse() and reversed(bitmask)
Reverse(bitmask) ==
    [j \in 1..Len(bitmask) |-> bitmask[Len(bitmask) - j + 1]]

\* for i in indices: bitmask[i // 8] |= 1 << (i % 8), from the n-th index on
RECURSIVE SetBits(_, _, _)
SetBits(bitmask, indices, n) ==
    IF n > Len(indices) THEN bitmask
    ELSE LET i == indices[n]
         IN  SetBits([bitmask EXCEPT ![(i \div 8) + 1] = SetBit(@, i % 8)],
                     indices, n + 1)

\* Faulty variant of indices_to_bitmask: the bytes are not reversed.
indices_to_bitmask_unreversed(indices, num_blocks) ==
    SetBits([j \in 1..CeilDiv(num_blocks, 8) |-> 0], indices, 1)

\* indices_to_bitmask(indices, num_blocks)
indices_to_bitmask(indices, num_blocks) ==
    Reverse(SetBits([j \in 1..CeilDiv(num_blocks, 8) |-> 0], indices, 1))

\* The two loops of bitmask_to_indices from position idx on: byte idx // 8
\* of the reversed bitmask, bit idx % 8; it returns at idx >= num_blocks
\* and when the bytes run out.
RECURSIVE ScanBits(_, _, _, _)
ScanBits(reversed, num_blocks, idx, indices) ==
    IF idx >= 8 * Len(reversed) \/ idx >= num_blocks THEN indices
    ELSE ScanBits(reversed, num_blocks, idx + 1,
                  IF TestBit(reversed[(idx \div 8) + 1], idx % 8)
                  THEN Append(indices, idx)
                  ELSE indices)

\* Faulty variant of bitmask_to_indices: the bytes are read first to last.
bitmask_to_indices_forward(bitmask, num_blocks) ==
    ScanBits(bitmask, num_blocks, 0, <<>>)

\* bitmask_to_indices(bitmask, num_blocks)
bitmask_to_indices(bitmask, num_blocks) ==
    ScanBits(Reverse(bitmask), num_blocks, 0, <<>>)

(***************************************************************************)
(* tools.robust_soliton_distribution, lines 36-114.  The code works in     *)
(* 64-bit floating point; here a real number x is the integer              *)
(* floor(x * Scale), so every value is exact to about four decimal places  *)
(* and a sum of n terms to about n / Scale.                                *)
(***************************************************************************)

\* Greatest block count the distribution is computed for.
MaxSolitonK == 8

Scale == 10 ^ 4

\* a * b and a / b on scaled values
Mul(a, b) == (a * b) \div Scale
Div(a, b) == (a * Scale) \div b

\* math.sqrt(k) for an integer k >= 0: the greatest scaled value whose
\* square is at most k
Sqrt(k) == CHOOSE r \in 0..(k * Scale) :
               r * r <= k * Scale * Scale /\ (r + 1) * (r + 1) > k * Scale * Scale

\* math.log(x) for 1 <= x < 2: 2 * (z + z^3/3 + z^5/5 + z^7/7 + z^9/9) with
\* z = (x - 1) / (x + 1)
LogSeries(x) ==
    LET z  == Div(x - Scale, x + Scale)
        z2 == Mul(z, z)
        z3 == Mul(z, z2)
        z5 == Mul(z3, z2)
        z7 == Mul(z5, z2)
        z9 == Mul(z7, z2)
    IN  2 * (z + (z3 \div 3) + (z5 \div 5) + (z7 \div 7) + (z9 \div 9))

\* math.log(2.0)
Log2 == 2 * LogSeries(Scale + (Scale \div 2)) - LogSeries(Scale + (Scale \div 8))

\* math.log(x) for a scaled x > 0: halved or doubled into [1, 2)
RECURSIVE Log(_)
Log(x) ==
    IF x >= 2 * Scale THEN Log(x \div 2) + Log2
    ELSE IF x < Scale THEN Log(2 * x) - Log2
    ELSE LogSeries(x)

\* sum(combined), from the n-th entry on
RECURSIVE Sum(_, _)
Sum(list, n) == IF n > Len(list) THEN 0 ELSE list[n] + Sum(list, n + 1)

\* robust_soliton_distribution(k, c, delta); k an integer, c and delta
\* scaled.  R is the ripple parameter, K the cutoff min(floor(k / R), k).
robust_soliton_distribution(k, c, delta) ==
    LET R == Mul(Mul(c, Log(Div(k * Scale, delta))), Sqrt(k))
        K == Min((k * Scale) \div R, k)
        rho == [d \in 1..k |->
                   IF d = 1 THEN Scale \div k ELSE Scale \div (d * (d - 1))]
        tau == [d \in 1..k |->
                   IF d = K THEN Mul(R, Log(Div(R, delta))) \div k
                   ELSE IF d < K THEN R \div (d * k)
                   ELSE 0]
        combined == [d \in 1..k |-> rho[d] + tau[d]]
        Z == Sum(combined, 1)
    IN  [d \in 1..k |-> Div(combined[d], Z)]

(***************************************************************************)
(* peel.simulate_peeling, lines 3-33: batch peeling over index lists only. *)
(* The result is the pair (recovered, packets) as a record.                *)
(***************************************************************************)

\* [x for x in p if x not in recovered]
Unrecovered(p, recovered) == SelectSeq(p, LAMBDA x : x \notin recovered)

\* The addresses in `singletons = [p[0] for p in packets if len(p) == 1]`.
Singletons(packets) ==
    {packets[n][1] : n \in {h \in 1..Len(packets) : Len(packets[h]) = 1}}

\* Faulty variant of the loop: it stops after its first iteration.
simulate_peeling_single_pass(recovered, packets) ==
    LET singletons == Singletons(packets)
    IN  IF singletons = {} THEN [recovered |-> recovered, packets |-> packets]
        ELSE LET rec == recovered \cup singletons
             IN  [recovered |-> rec,
                  packets |-> [n \in 1..Len(packets) |->
                                   Unrecovered(packets[n], rec)]]

\* The `while True` loop, entered with the given recovered set and packets.
RECURSIVE simulate_peeling_loop(_, _)
simulate_peeling_loop(recovered, packets) ==
    LET singletons == Singletons(packets)
    IN  IF singletons = {} THEN [recovered |-> recovered, packets |-> packets]
        ELSE LET rec == recovered \cup singletons
             IN  simulate_peeling_loop(rec,
                     [n \in 1..Len(packets) |-> Unrecovered(packets[n], rec)])

simulate_peeling(packets) == simulate_peeling_loop({}, packets)

(***************************************************************************)
(* tools.LTDecoder.  A decoder object is a record `self` with the fields   *)
(* of the class; `trace` is a history field (not in the source) that       *)
(* records, in order, every write to recovered ("release"), every ripple   *)
(* dequeue ("dequeue") and every edge removal ("remove").                  *)
(***************************************************************************)

Event(ev, block, packet, data) ==
    [ev |-> ev, block |-> block, packet |-> packet, data |-> data]

\* LTDecoder.__init__
LTDecoder(k) ==
    [num_blocks       |-> k,
     recovered        |-> <<>>,
     packets          |-> <<>>,
     block_to_packets |-> <<>>,
     ripple           |-> <<>>,
     trace            |-> <<>>]

\* Faulty variant of _add_to_ripple: the `not in self.recovered` test is
\* missing, so a second singleton for a block writes and enqueues it again.
_add_to_ripple_unguarded(self, block_idx, pkt) ==
    [self EXCEPT
        !.recovered = Put(self.recovered, block_idx, pkt),
        !.ripple    = Append(self.ripple, block_idx),
        !.trace     = Append(self.trace, Event("release", block_idx, -1, pkt))]

\* Faulty variant of _add_to_ripple: a block already recovered is not
\* written again but is still appended to the ripple.
_add_to_ripple_requeue(self, block_idx, pkt) ==
    IF block_idx \in DOMAIN self.recovered
    THEN [self EXCEPT !.ripple = Append(self.ripple, block_idx)]
    ELSE [self EXCEPT
            !.recovered = Put(self.recovered, block_idx, pkt),
            !.ripple    = Append(self.ripple, block_idx),
            !.trace     = Append(self.trace, Event("release", block_idx, -1, pkt))]

\* LTDecoder._add_to_ripple
_add_to_ripple(self, block_idx, pkt) ==
    IF block_idx \in DOMAIN self.recovered THEN self
    ELSE [self EXCEPT
            !.recovered = Put(self.recovered, block_idx, pkt),
            !.ripple    = Append(self.ripple, block_idx),
            !.trace     = Append(self.trace, Event("release", block_idx, -1, pkt))]

\* Faulty variant of PeelPacket: the recovered block is removed from the index
\* list but not XORed out of the buffer.
PeelPacketNoXor(self, b, rec_pkt, packet_id) ==
    LET indices == self.packets[packet_id + 1].indices
        pkt     == self.packets[packet_id + 1].pkt
    IN  IF ~InList(b, indices) THEN self
        ELSE LET new_indices == ListRemove(indices, b)
                 s1 == [self EXCEPT
                          !.packets[packet_id + 1] =
                              [indices |-> new_indices, pkt |-> pkt],
                          !.block_to_packets =
                              Put(self.block_to_packets, b,
                                  Get(self.block_to_packets, b) \ {packet_id}),
                          !.trace = Append(self.trace,
                                           Event("remove", b, packet_id, pkt))]
             IN  IF Len(new_indices) = 1
                 THEN _add_to_ripple(s1, new_indices[1], pkt)
                 ELSE s1

\* Faulty variant of PeelPacket: the packet id stays in block_to_packets[b].
PeelPacketKeepEdge(self, b, rec_pkt, packet_id) ==
    LET indices == self.packets[packet_id + 1].indices
        pkt     == self.packets[packet_id + 1].pkt
    IN  IF ~InList(b, indices) THEN self
        ELSE LET new_indices == ListRemove(indices, b)
                 new_pkt     == XorBytes(pkt, rec_pkt)
                 s1 == [self EXCEPT
                          !.packets[packet_id + 1] =
                              [indices |-> new_indices, pkt |-> new_pkt],
                          !.trace = Append(self.trace,
                                           Event("remove", b, packet_id, new_pkt))]
             IN  IF Len(new_indices) = 1
                 THEN _add_to_ripple(s1, new_indices[1], new_pkt)
                 ELSE s1

\* Faulty variant of PeelPacket: a packet reduced to one index appends its
\* block to the ripple whether or not the block is recovered.
PeelPacketRequeue(self, b, rec_pkt, packet_id) ==
    LET indices == self.packets[packet_id + 1].indices
        pkt     == self.packets[packet_id + 1].pkt
    IN  IF ~InList(b, indices) THEN self
        ELSE LET new_indices == ListRemove(indices, b)
                 new_pkt     == XorBytes(pkt, rec_pkt)
                 s1 == [self EXCEPT
                          !.packets[packet_id + 1] =
                              [indices |-> new_indices, pkt |-> new_pkt],
                          !.block_to_packets =
                              Put(self.block_to_packets, b,
                                  Get(self.block_to_packets, b) \ {packet_id}),
                          !.trace = Append(self.trace,
                                           Event("remove", b, packet_id, new_pkt))]
             IN  IF Len(new_indices) = 1
                 THEN [_add_to_ripple(s1, new_indices[1], new_pkt) EXCEPT
                          !.ripple = Append(s1.ripple, new_indices[1])]
                 ELSE s1

\* Faulty variant of PeelPacket: a packet with a single index is left alone.
PeelPacketSkipSingleton(self, b, rec_pkt, packet_id) ==
    LET indices == self.packets[packet_id + 1].indices
        pkt     == self.packets[packet_id + 1].pkt
    IN  IF ~InList(b, indices) \/ Len(indices) = 1 THEN self
        ELSE LET new_indices == ListRemove(indices, b)
                 new_pkt     == XorBytes(pkt, rec_pkt)
                 s1 == [self EXCEPT
                          !.packets[packet_id + 1] =
                              [indices |-> new_indices, pkt |-> new_pkt],
                          !.block_to_packets =
                              Put(self.block_to_packets, b,
                                  Get(self.block_to_packets, b) \ {packet_id}),
                          !.trace = Append(self.trace,
                                           Event("remove", b, packet_id, new_pkt))]
             IN  IF Len(new_indices) = 1
                 THEN _add_to_ripple(s1, new_indices[1], new_pkt)
                 ELSE s1

\* One pass of the body of `for packet_id in list(self.block_to_packets[b])`.
PeelPacket(self, b, rec_pkt, packet_id) ==
    LET indices == self.packets[packet_id + 1].indices
        pkt     == self.packets[packet_id + 1].pkt
    IN  IF ~InList(b, indices) THEN self
        ELSE LET new_indices == ListRemove(indices, b)
                 new_pkt     == XorBytes(pkt, rec_pkt)
                 s1 == [self EXCEPT
                          !.packets[packet_id + 1] =
                              [indices |-> new_indices, pkt |-> new_pkt],
                          !.block_to_packets =
                              Put(self.block_to_packets, b,
                                  Get(self.block_to_packets, b) \ {packet_id}),
                          !.trace = Append(self.trace,
                                           Event("remove", b, packet_id, new_pkt))]
             IN  IF Len(new_indices) = 1
                 THEN _add_to_ripple(s1, new_indices[1], new_pkt)
                 ELSE s1

\* Faulty variant of PeelBlock: the loop stops after the first packet.
PeelBlockFirstOnly(self, b, rec_pkt, ids, n) ==
    IF n > Len(ids) THEN self ELSE PeelPacket(self, b, rec_pkt, ids[n])

\* The for loop over the snapshot `ids` of block_to_packets[b], from position n.
RECURSIVE PeelBlock(_, _, _, _, _)
PeelBlock(self, b, rec_pkt, ids, n) ==
    IF n > Len(ids) THEN self
    ELSE PeelBlock(PeelPacket(self, b, rec_pkt, ids[n]), b, rec_pkt, ids, n + 1)

\* Faulty variant of PeelStep: the ripple is popped at the right end (a
\* stack), not at the left.
PeelStepLifo(self) ==
    LET b       == self.ripple[Len(self.ripple)]
        rec_pkt == self.recovered[b]
        s0 == [self EXCEPT
                 !.ripple = SubSeq(self.ripple, 1, Len(self.ripple) - 1),
                 !.block_to_packets =
                     Put(self.block_to_packets, b, Get(self.block_to_packets, b)),
                 !.trace = Append(self.trace, Event("dequeue", b, -1, rec_pkt))]
    IN  PeelBlock(s0, b, rec_pkt, SetToSeq(s0.block_to_packets[b]), 1)

\* One iteration of `while self.ripple`: dequeue b and propagate it.
PeelStep(self) ==
    LET b       == Head(self.ripple)
        rec_pkt == self.recovered[b]
        \* reading block_to_packets[b] creates the key in a defaultdict
        s0 == [self EXCEPT
                 !.ripple = Tail(self.ripple),
                 !.block_to_packets =
                     Put(self.block_to_packets, b, Get(self.block_to_packets, b)),
                 !.trace = Append(self.trace, Event("dequeue", b, -1, rec_pkt))]
    IN  PeelBlock(s0, b, rec_pkt, SetToSeq(s0.block_to_packets[b]), 1)

\* Faulty variant of _peel: `if self.ripple` in place of `while self.ripple`.
_peel_once(self) == IF self.ripple = <<>> THEN self ELSE PeelStep(self)

\* Faulty variant of _peel: the stored packets are dropped once every block
\* is recovered.
RECURSIVE _peel_freeing(_)
_peel_freeing(self) ==
    IF self.ripple = <<>>
    THEN IF Cardinality(DOMAIN self.recovered) = self.num_blocks
         THEN [self EXCEPT !.packets = <<>>,
                           !.block_to_packets =
                               [b \in DOMAIN self.block_to_packets |-> {}]]
         ELSE self
    ELSE _peel_freeing(PeelStep(self))

\* LTDecoder._peel
RECURSIVE _peel(_)
_peel(self) == IF self.ripple = <<>> THEN self ELSE _peel(PeelStep(self))

\* Faulty variant of Eliminate: recovered blocks are dropped from the index
\* list but not XORed out of the payload.
RECURSIVE EliminateNoXor(_, _, _, _)
EliminateNoXor(recovered, indices, n, acc) ==
    IF n > Len(indices) THEN acc
    ELSE LET i == indices[n]
         IN  EliminateNoXor(recovered, indices, n + 1,
                 IF i \in DOMAIN recovered THEN acc
                 ELSE [acc EXCEPT !.new_indices = Append(acc.new_indices, i)])

\* Faulty variant of Eliminate: the `else` is missing, so a recovered block
\* is XORed out of the payload and still kept in the index list.
RECURSIVE EliminateKeepAll(_, _, _, _)
EliminateKeepAll(recovered, indices, n, acc) ==
    IF n > Len(indices) THEN acc
    ELSE LET i == indices[n]
             x == IF i \in DOMAIN recovered
                  THEN [acc EXCEPT !.pkt = XorBytes(acc.pkt, recovered[i])]
                  ELSE acc
         IN  EliminateKeepAll(recovered, indices, n + 1,
                 [x EXCEPT !.new_indices = Append(x.new_indices, i)])

\* Step 1 of add_packet: eliminate the recovered blocks of `indices`.
\* acc is [new_indices, pkt] after the first n - 1 indices.
RECURSIVE Eliminate(_, _, _, _)
Eliminate(recovered, indices, n, acc) ==
    IF n > Len(indices) THEN acc
    ELSE LET i == indices[n]
         IN  Eliminate(recovered, indices, n + 1,
                 IF i \in DOMAIN recovered
                 THEN [acc EXCEPT !.pkt = XorBytes(acc.pkt, recovered[i])]
                 ELSE [acc EXCEPT !.new_indices = Append(acc.new_indices, i)])

\* Faulty variant of AddEdges: only the first index of the packet gets its
\* adjacency edge.
AddEdgesFirstOnly(block_to_packets, new_indices, n, packet_id) ==
    IF new_indices = <<>> THEN block_to_packets
    ELSE Put(block_to_packets, new_indices[1],
             Get(block_to_packets, new_indices[1]) \cup {packet_id})

\* for i in new_indices: self.block_to_packets[i].add(packet_id)
RECURSIVE AddEdges(_, _, _, _)
AddEdges(block_to_packets, new_indices, n, packet_id) ==
    IF n > Len(new_indices) THEN block_to_packets
    ELSE AddEdges(Put(block_to_packets, new_indices[n],
                      Get(block_to_packets, new_indices[n]) \cup {packet_id}),
                  new_indices, n + 1, packet_id)

\* Faulty variant of add_packet: the early return for a packet with nothing
\* new is missing, so the emptied packet is stored.
add_packet_no_return(self, indices, pkt) ==
    LET e == Eliminate(self.recovered, indices, 1,
                       [new_indices |-> <<>>, pkt |-> pkt])
        packet_id == Len(self.packets)
        s1 == [self EXCEPT
                 !.packets = Append(self.packets,
                       [indices |-> e.new_indices, pkt |-> e.pkt]),
                 !.block_to_packets =
                     AddEdges(self.block_to_packets, e.new_indices, 1, packet_id)]
        s2 == IF Len(e.new_indices) = 1
              THEN _add_to_ripple(s1, e.new_indices[1], e.pkt)
              ELSE s1
    IN  _peel(s2)

\* Faulty variant of add_packet: step 2 is missing, a packet that arrives
\* with one unknown block releases nothing.
add_packet_no_release(self, indices, pkt) ==
    LET e == Eliminate(self.recovered, indices, 1,
                       [new_indices |-> <<>>, pkt |-> pkt])
    IN  IF e.new_indices = <<>> THEN self
        ELSE _peel([self EXCEPT
                      !.packets = Append(self.packets,
                            [indices |-> e.new_indices, pkt |-> e.pkt]),
                      !.block_to_packets =
                          AddEdges(self.block_to_packets, e.new_indices, 1,
                                   Len(self.packets))])

\* Faulty variant of add_packet: the first residual index is released
\* whatever the number of residual indices.
add_packet_release_any(self, indices, pkt) ==
    LET e == Eliminate(self.recovered, indices, 1,
                       [new_indices |-> <<>>, pkt |-> pkt])
    IN  IF e.new_indices = <<>> THEN self
        ELSE LET packet_id == Len(self.packets)
                 s1 == [self EXCEPT
                          !.packets = Append(self.packets,
                                [indices |-> e.new_indices, pkt |-> e.pkt]),
                          !.block_to_packets =
                              AddEdges(self.block_to_packets, e.new_indices, 1,
                                       packet_id)]
             IN  _peel(_add_to_ripple(s1, e.new_indices[1], e.pkt))

\* Faulty variant of add_packet: a packet that arrives as a singleton is
\* released without being stored.
add_packet_release_unstored(self, indices, pkt) ==
    LET e == Eliminate(self.recovered, indices, 1,
                       [new_indices |-> <<>>, pkt |-> pkt])
    IN  IF e.new_indices = <<>> THEN self
        ELSE IF Len(e.new_indices) = 1
        THEN _peel(_add_to_ripple(self, e.new_indices[1], e.pkt))
        ELSE LET packet_id == Len(self.packets)
                 s1 == [self EXCEPT
                          !.packets = Append(self.packets,
                                [indices |-> e.new_indices, pkt |-> e.pkt]),
                          !.block_to_packets =
                              AddEdges(self.block_to_packets, e.new_indices, 1,
                                       packet_id)]
             IN  _peel(s1)

\* Faulty variant of add_packet: a singleton releases the payload as it
\* arrived, before the recovered blocks were XORed out of it.
add_packet_release_raw(self, indices, pkt) ==
    LET e == Eliminate(self.recovered, indices, 1,
                       [new_indices |-> <<>>, pkt |-> pkt])
    IN  IF e.new_indices = <<>> THEN self
        ELSE LET packet_id == Len(self.packets)
                 s1 == [self EXCEPT
                          !.packets = Append(self.packets,
                                [indices |-> e.new_indices, pkt |-> e.pkt]),
                          !.block_to_packets =
                              AddEdges(self.block_to_packets, e.new_indices, 1,
                                       packet_id)]
                 s2 == IF Len(e.new_indices) = 1
                       THEN _add_to_ripple(s1, e.new_indices[1], pkt)
                       ELSE s1
             IN  _peel(s2)

\* LTDecoder.add_packet
add_packet(self, indices, pkt) ==
    LET e == Eliminate(self.recovered, indices, 1,
                       [new_indices |-> <<>>, pkt |-> pkt])
    IN  IF e.new_indices = <<>> THEN self
        ELSE LET packet_id == Len(self.packets)
                 s1 == [self EXCEPT
                          !.packets = Append(self.packets,
                                [indices |-> e.new_indices, pkt |-> e.pkt]),
                          !.block_to_packets =
                              AddEdges(self.block_to_packets, e.new_indices, 1,
                                       packet_id)]
                 s2 == IF Len(e.new_indices) = 1
                       THEN _add_to_ripple(s1, e.new_indices[1], e.pkt)
                       ELSE s1
             IN  _peel(s2)

\* Faulty variant of is_complete: counts the stored packets, not the
\* recovered blocks.
is_complete_by_packets(self) == Len(self.packets) = self.num_blocks

\* LTDecoder.is_complete
is_complete(self) == Cardinality(DOMAIN self.recovered) = self.num_blocks

(***************************************************************************)
(* simulate_decode.IndexOnlyLTDecoder, lines 22-85: the peeling decoder on *)
(* index lists alone.  A simulator object is a record `self` with the      *)
(* fields of the class; recovered is a set, packets a list of index lists. *)
(* `enqueued` is a history field (not in the source): the blocks appended  *)
(* to the ripple, in order.                                                *)
(***************************************************************************)

\* IndexOnlyLTDecoder.__init__
IndexOnlyLTDecoder(k) ==
    [k                |-> k,
     recovered        |-> {},
     packets          |-> <<>>,
     block_to_packets |-> <<>>,
     ripple           |-> <<>>,
     enqueued         |-> <<>>]

\* IndexOnlyLTDecoder._add_to_ripple
IndexOnly_add_to_ripple(self, block_idx) ==
    IF block_idx \in self.recovered THEN self
    ELSE [self EXCEPT !.ripple   = Append(self.ripple, block_idx),
                      !.enqueued = Append(self.enqueued, block_idx)]

\* One pass of the body of `for packet_id in list(self.block_to_packets[b])`.
IndexOnlyPeelPacket(self, b, packet_id) ==
    LET indices == self.packets[packet_id + 1]
    IN  IF ~InList(b, indices) THEN self
        ELSE LET new_indices == ListRemove(indices, b)
                 s1 == [self EXCEPT
                          !.packets[packet_id + 1] = new_indices,
                          !.block_to_packets =
                              Put(self.block_to_packets, b,
                                  Get(self.block_to_packets, b) \ {packet_id})]
             IN  IF Len(new_indices) = 1
                 THEN IndexOnly_add_to_ripple(s1, new_indices[1])
                 ELSE s1

\* The for loop over the snapshot `ids` of block_to_packets[b], from position n.
RECURSIVE IndexOnlyPeelBlock(_, _, _, _)
IndexOnlyPeelBlock(self, b, ids, n) ==
    IF n > Len(ids) THEN self
    ELSE IndexOnlyPeelBlock(IndexOnlyPeelPacket(self, b, ids[n]), b, ids, n + 1)

\* One iteration of `while self.ripple`: dequeue b; a block already
\* recovered is skipped, any other is marked recovered and propagated.
IndexOnlyPeelStep(self) ==
    LET b  == Head(self.ripple)
        s0 == [self EXCEPT !.ripple = Tail(self.ripple)]
    IN  IF b \in s0.recovered THEN s0
        ELSE LET s1 == [s0 EXCEPT
                          !.recovered = s0.recovered \cup {b},
                          !.block_to_packets =
                              Put(s0.block_to_packets, b,
                                  Get(s0.block_to_packets, b))]
             IN  IndexOnlyPeelBlock(s1, b, SetToSeq(s1.block_to_packets[b]), 1)

\* IndexOnlyLTDecoder._peel
RECURSIVE IndexOnly_peel(_)
IndexOnly_peel(self) ==
    IF self.ripple = <<>> THEN self ELSE IndexOnly_peel(IndexOnlyPeelStep(self))

\* for i in new_indices: self.block_to_packets[i].add(packet_id), from n on
RECURSIVE IndexOnlyAddEdges(_, _, _, _)
IndexOnlyAddEdges(edges, new_indices, n, packet_id) ==
    IF n > Len(new_indices) THEN edges
    ELSE IndexOnlyAddEdges(Put(edges, new_indices[n],
                               Get(edges, new_indices[n]) \cup {packet_id}),
                           new_indices, n + 1, packet_id)

\* Step 2 onwards of add_packet: store new_indices, add its edges, release
\* a singleton, peel.
IndexOnlyStore(self, new_indices) ==
    IF new_indices = <<>> THEN self
    ELSE LET packet_id == Len(self.packets)
             s1 == [self EXCEPT
                      !.packets = Append(self.packets, new_indices),
                      !.block_to_packets =
                          IndexOnlyAddEdges(self.block_to_packets, new_indices,
                                            1, packet_id)]
             s2 == IF Len(new_indices) = 1
                   THEN IndexOnly_add_to_ripple(s1, new_indices[1])
                   ELSE s1
         IN  IndexOnly_peel(s2)

\* Faulty variant of add_packet: recovered indices are not removed.
IndexOnly_add_packet_keep_all(self, indices) == IndexOnlyStore(self, indices)

\* IndexOnlyLTDecoder.add_packet
IndexOnly_add_packet(self, indices) ==
    IndexOnlyStore(self,
                   SelectSeq(indices, LAMBDA i : i \notin self.recovered))

\* IndexOnlyLTDecoder.is_complete
IndexOnly_is_complete(self) == Cardinality(self.recovered) = self.k

(***************************************************************************)
(* The system: prototype.py's driver.  A payload is read, a block size     *)
(* chosen, one decoder built, and packets drawn from the encoder are fed   *)
(* to it one add_packet call at a time.                                    *)
(***************************************************************************)
VARIABLES
    file_data,          \* the payload handed to lt_encoder
    block_size,         \* the block size handed to lt_encoder
    num_blocks,         \* decoder.num_blocks
    recovered,          \* decoder.recovered
    packets,            \* decoder.packets
    block_to_packets,   \* decoder.block_to_packets
    ripple,             \* decoder.ripple
    trace,              \* history: releases, dequeues and edge removals so far
    history,            \* history: the (indices, pkt) of every add_packet call
    planner,            \* a choose_block_size call: its arguments and outcome
    encoder_gen,        \* the generator object lt_encoder returned
    frame,              \* a packet's index list on its way through the codec
    soliton,            \* a robust_soliton_distribution call and its result
    simulator           \* an IndexOnlyLTDecoder object fed beside the decoder

vars == <<file_data, block_size, num_blocks, recovered, packets,
          block_to_packets, ripple, trace, history, planner, encoder_gen,
          frame, soliton, simulator>>

\* No choose_block_size call is followed.
NoPlanner ==
    [file_size |-> 0, max_payload_size |-> 0, status |-> "idle", block_size |-> 0]

\* The generator object is not followed.
NoEncoderGen == [status |-> "idle", yielded |-> <<>>]

\* No robust_soliton_distribution call is followed.
NoSoliton == [status |-> "idle", k |-> 0, c |-> 0, delta |-> 0, mu |-> <<>>]

\* No simulator object is followed.
NoSimulator == IndexOnlyLTDecoder(0)

\* No frame is followed.
NoFrame == [status |-> "idle", indices |-> <<>>, bitmask |-> <<>>, decoded |-> <<>>]

\* The decoder object in the current state.
decoder ==
    [num_blocks       |-> num_blocks,
     recovered        |-> recovered,
     packets          |-> packets,
     block_to_packets |-> block_to_packets,
     ripple           |-> ripple,
     trace            |-> trace]

Init ==
    /\ file_data \in {generate_file(n) : n \in 1..MaxFileSize}
    /\ block_size \in BlockSizes
    /\ num_blocks = NumBlocks(file_data, block_size)
    /\ recovered = LTDecoder(num_blocks).recovered
    /\ packets = LTDecoder(num_blocks).packets
    /\ block_to_packets = LTDecoder(num_blocks).block_to_packets
    /\ ripple = LTDecoder(num_blocks).ripple
    /\ trace = <<>>
    /\ history = <<>>
    /\ simulator = NoSimulator
    /\ soliton = NoSoliton
    /\ planner = NoPlanner
    /\ encoder_gen = NoEncoderGen
    /\ frame = NoFrame

\* decoder.add_packet(indices, pkt)
AddPacket(indices, pkt) ==
    /\ \E after \in {add_packet(decoder, indices, pkt)} :
           /\ recovered' = after.recovered
           /\ packets' = after.packets
           /\ block_to_packets' = after.block_to_packets
           /\ ripple' = after.ripple
           /\ trace' = after.trace
    /\ history' = Append(history, [indices |-> indices, pkt |-> pkt])
    /\ UNCHANGED <<file_data, block_size, num_blocks, planner, encoder_gen, frame,
                   soliton, simulator>>

\* while not decoder.is_complete():
\*     indices, pkt = next(encoder_gen); decoder.add_packet(indices, pkt)
\* The call before the loop is made on a new decoder, which is not complete.
\* The number of calls is capped at MaxPackets.
Feed ==
    /\ Len(history) < MaxPackets
    /\ ~is_complete(decoder)
    /\ \E p \in lt_encoder(file_data, block_size) : AddPacket(p.indices, p.pkt)

Next == Feed

Spec == Init /\ [][Next]_vars

(***************************************************************************)
(* The driver loop under a fair packet stream.  The encoder draws degree 1 *)
(* and each address with positive probability, so a stream that goes on    *)
(* for ever delivers the degree-1 packet of every block again and again.   *)
(* Up to MaxNoise arbitrary packets come first; after that only the        *)
(* degree-1 packets of blocks still missing are followed.                  *)
(***************************************************************************)

\* Arbitrary encoder packets, the first MaxNoise calls of the loop
\* `while not decoder.is_complete()`.
Noise ==
    /\ Len(history) < MaxNoise
    /\ ~is_complete(decoder)
    /\ \E p \in lt_encoder(file_data, block_size) : AddPacket(p.indices, p.pkt)

\* The call add_packet([i], block i) is made while block i is still missing:
\* the part of such a step that the call history shows.  Each such call
\* should recover a block, so num_blocks of them are enough; the cap on the
\* calls keeps a decoder that makes no progress finite.
MissingCall(i) ==
    /\ i < num_blocks
    /\ i \notin DOMAIN recovered
    /\ Len(history) < MaxNoise + num_blocks
    /\ history' = Append(history,
           [indices |-> <<i>>,
            pkt |-> EncodePacket(file_data, block_size, <<i>>)])

\* The encoder yields the degree-1 packet of block i, which is still missing.
FeedMissing(i) ==
    /\ MissingCall(i)
    /\ AddPacket(<<i>>, EncodePacket(file_data, block_size, <<i>>))

FairNext == Noise \/ \E i \in 0..(MaxFileSize - 1) : FeedMissing(i)

\* Fairness: the degree-1 packet of a missing block is eventually fed.  A
\* step of FairNext that extends the history as MissingCall(i) says is a
\* FeedMissing(i) step (or the same call made by Noise).
FairSpec ==
    /\ Init
    /\ [][FairNext]_vars
    /\ \A i \in 0..(MaxFileSize - 1) : WF_history(MissingCall(i))

(***************************************************************************)
(* prototype.py, lines 59-60: the payload rebuilt from a complete decoder. *)
(***************************************************************************)

\* b''.join(recovered[i] for i in range(n))
RECURSIVE Join(_, _)
Join(rec, n) == IF n = 0 THEN <<>> ELSE Join(rec, n - 1) \o rec[n - 1]

\* decoded_data = b''.join(...)[:len(original_data)]
decoded_data(rec, k, file_size) == Slice(Join(rec, k), 0, file_size)

(***************************************************************************)
(* Definitions used to state the properties                                *)
(***************************************************************************)

BlockAddresses == 0..(num_blocks - 1)

PacketIds == 0..(Len(packets) - 1)

\* The residual index list and buffer of stored packet p.
S(p) == packets[p + 1].indices
P(p) == packets[p + 1].pkt

Zeros(n) == [j \in 1..n |-> 0]

\* XOR of the zero-padded blocks named by an index list (zeros if none).
BlockXor(indices) ==
    IF indices = <<>> THEN Zeros(block_size)
    ELSE EncodePacket(file_data, block_size, indices)

\* The positions of the trace holding an event of the given kind.
Events(kind) == {k \in 1..Len(trace) : trace[k].ev = kind}

\* The decoder after a sequence of add_packet calls on a fresh decoder.
RECURSIVE Replay(_, _)
Replay(calls, n) ==
    IF n = 0 THEN LTDecoder(num_blocks)
    ELSE add_packet(Replay(calls, n - 1), calls[n].indices, calls[n].pkt)

\* The decoder as it was before the latest add_packet call.
Before == Replay(history, Len(history) - 1)

LastCall == history[Len(history)]

----------------------------------------------------------------------------
\* C1 (round trip): whenever the decoder is complete, recovered[i] is the
\* zero-padded block i of the payload for every block address i, and the
\* blocks joined in order and cut to the file size are the payload.
RoundTrip ==
    is_complete(decoder) =>
        /\ \A i \in BlockAddresses :
               /\ i \in DOMAIN recovered
               /\ recovered[i] = PaddedBlock(file_data, block_size, i)
        /\ decoded_data(recovered, num_blocks, Len(file_data)) = file_data

\* A three-block payload whose last block is padded, completed by the chain
\* {a,b,c}, {b,c}, {c}: every block but one is recovered by peeling.
RoundTripWitness ==
    /\ is_complete(decoder)
    /\ num_blocks = 3
    /\ Len(file_data) % block_size # 0
    /\ Len(history) = 3
    /\ Len(history[1].indices) = 3
    /\ Len(history[2].indices) = 2
    /\ Len(history[3].indices) = 1

\* C2 (peel invariant): after every add_packet call, the buffer of every
\* stored residual packet is the XOR of the blocks its index list names,
\* and all zeros when the list is empty.
PeelInvariant == \A p \in PacketIds : P(p) = BlockXor(S(p))

\* A stored packet that still names two blocks after one block was peeled
\* out of it.
PeelInvariantWitness ==
    \E p \in PacketIds :
        /\ Len(S(p)) = 2
        /\ \E k \in Events("remove") : trace[k].packet = p

\* C3 (write-once recovery): a recovered entry is never removed, replaced or
\* changed; each block is written at most once, and the bytes held for it
\* are the bytes written when it was released, whatever happened afterwards
\* to the residual buffer they were copied from.
WriteOnce ==
    [][ /\ \A b \in DOMAIN recovered :
               b \in DOMAIN recovered' /\ recovered'[b] = recovered[b]
        /\ \A k \in {j \in 1..Len(trace') : trace'[j].ev = "release"} :
               /\ recovered'[trace'[k].block] = trace'[k].data
               /\ \A m \in 1..(k - 1) :
                      trace'[m].ev = "release" =>
                          trace'[m].block # trace'[k].block
      ]_vars

\* A block was released from a buffer that peeling later XORed to zeros,
\* and a further add_packet call was made after that.
WriteOnceWitness ==
    /\ Len(history) >= 2
    /\ \E k \in Events("release") :
           /\ trace[k].data # Zeros(block_size)
           /\ k <= Len(Before.trace)
           /\ \E m \in Events("remove") :
                  /\ m > k
                  /\ trace[m].block = trace[k].block
                  /\ trace[m].data = Zeros(block_size)
                  /\ Before.packets[trace[m].packet + 1].indices = <<>>
           /\ Len(trace) > Len(Before.trace)

\* C4 (adjacency consistency): after every add_packet call, packet id p is
\* in block_to_packets[b] exactly when b is in the index list of packets[p].
AdjacencyConsistent ==
    \A b \in BlockAddresses \cup DOMAIN block_to_packets :
        Get(block_to_packets, b) = {p \in PacketIds : InList(b, S(p))}

\* Edges were removed by peeling while other edges remain.
AdjacencyWitness ==
    /\ Events("remove") # {}
    /\ \E b \in DOMAIN block_to_packets : block_to_packets[b] # {}
    /\ \E b \in DOMAIN block_to_packets : block_to_packets[b] = {}

\* C5: after every add_packet call, no stored residual index list names a
\* recovered block.
NoRecoveredInResidual ==
    \A p \in PacketIds : \A b \in DOMAIN recovered : ~InList(b, S(p))

\* A packet that arrived naming a recovered block is stored without it.
NoRecoveredWitness ==
    /\ Len(history) >= 2
    /\ Len(packets) = Len(Before.packets) + 1
    /\ \E j \in 1..Len(LastCall.indices) :
           LastCall.indices[j] \in DOMAIN Before.recovered
    /\ Len(S(Len(packets) - 1)) >= 2

\* C6 (quiescence on return): when add_packet has returned the ripple is
\* empty and no stored residual packet has exactly one index left.
Quiescent ==
    /\ ripple = <<>>
    /\ \A p \in PacketIds : Len(S(p)) # 1

\* The latest call set off a cascade: it released at least two blocks.
QuiescentWitness ==
    /\ Len(history) >= 1
    /\ Cardinality(DOMAIN recovered) >= Cardinality(DOMAIN Before.recovered) + 2
    /\ \E p \in 0..(Len(Before.packets) - 1) :
           Len(Before.packets[p + 1].indices) >= 2

\* C7 (redundant packet safety): an add_packet call whose indices are all
\* recovered already leaves recovered, the stored packets, the adjacency and
\* the ripple as they were.
RedundantSafe ==
    [][ ( /\ Len(history') = Len(history) + 1
          /\ \A j \in 1..Len(history'[Len(history')].indices) :
                 history'[Len(history')].indices[j] \in DOMAIN recovered )
        => UNCHANGED <<recovered, packets, block_to_packets, ripple, simulator>>
      ]_vars

\* The latest call carried two indices, both recovered before it; residual
\* packets were stored by then.
RedundantWitness ==
    /\ Len(history) >= 2
    /\ Len(LastCall.indices) = 2
    /\ \A j \in 1..2 : LastCall.indices[j] \in DOMAIN Before.recovered
    /\ Before.packets # <<>>

\* C8: is_complete() is true exactly when the number of recovered blocks is
\* num_blocks, which (all indices being block addresses) is exactly when
\* every block address 0..num_blocks-1 has an entry in recovered.
CompleteIffAllRecovered ==
    /\ is_complete(decoder) <=> Cardinality(DOMAIN recovered) = num_blocks
    /\ is_complete(decoder) <=> \A i \in BlockAddresses : i \in DOMAIN recovered
    /\ DOMAIN recovered \subseteq BlockAddresses

\* A complete decoder that stored more packets than there are blocks.
CompleteWitness ==
    /\ is_complete(decoder)
    /\ num_blocks = 2
    /\ Len(packets) > num_blocks

\* The calls of a history in a fixed order that depends only on which
\* packets they are: ascending by a number that identifies the index list.
RECURSIVE Key(_, _)
Key(indices, n) ==
    IF n = 0 THEN 0 ELSE (indices[n] + 1) + (num_blocks + 1) * Key(indices, n - 1)

RECURSIVE Insert(_, _)
Insert(call, sorted) ==
    IF sorted = <<>> THEN <<call>>
    ELSE IF Key(call.indices, Len(call.indices))
                <= Key(Head(sorted).indices, Len(Head(sorted).indices))
         THEN <<call>> \o sorted
         ELSE <<Head(sorted)>> \o Insert(call, Tail(sorted))

RECURSIVE Sorted(_, _)
Sorted(calls, n) == IF n = 0 THEN <<>> ELSE Insert(calls[n], Sorted(calls, n - 1))

\* C9 (arrival-order independence): the recovered blocks, their contents
\* and is_complete() after ingesting a multiset of packets do not depend on
\* the order.  Every order of every multiset of up to MaxPackets encoder
\* packets is a reachable history, and each gives what the sorted order
\* of the same packets gives.
OrderIndependent ==
    LET sorted == Replay(Sorted(history, Len(history)), Len(history))
    IN  /\ recovered = sorted.recovered
        /\ is_complete(decoder) = is_complete(sorted)

\* Three packets arrived out of the sorted order, blocks were recovered, and
\* the stored residual packets differ from those of the sorted order.
OrderWitness ==
    /\ Len(history) = 3
    /\ Sorted(history, 3) # history
    /\ DOMAIN recovered # {}
    /\ ~is_complete(decoder)
    /\ Replay(Sorted(history, 3), 3).packets # packets

\* C10 (eventual completion): under a fair packet stream the loop that feeds
\* packets while the decoder is not complete ends: is_complete() becomes true.
EventuallyComplete == <>is_complete(decoder)

\* A three-block decoder completed by degree-1 packets that came after
\* MaxNoise other packets.
EventuallyCompleteWitness ==
    /\ is_complete(decoder)
    /\ num_blocks = 3
    /\ Len(history) > MaxNoise
    /\ \A j \in 1..MaxNoise : Len(history[j].indices) >= 2

(***************************************************************************)
(* LTDecoder.add_packet called directly with arguments the encoder never   *)
(* yields: an index list that names a block address past the last block,   *)
(* or a payload of another length.  add_packet (tools.py, lines 214-249)   *)
(* has no check of either, so such calls run as any other, on a complete   *)
(* decoder too.  (The receivers' bitmask_to_indices drops addresses past   *)
(* the last block, so these lists come from a caller of the class only.)   *)
(***************************************************************************)

\* Index lists of degree 1 and 2 that name the address num_blocks, the first
\* one past the last block.
OutOfRangeIndices(k) ==
    {<<k>>} \cup {<<i, k>> : i \in 0..(k - 1)} \cup {<<k, i>> : i \in 0..(k - 1)}

\* The in-range part of an index list, in order.
InRange(indices, k) == SelectSeq(indices, LAMBDA i : i < k)

\* decoder.add_packet(indices, packet) with an address >= num_blocks.  The
\* payload has the agreed length: the XOR of the in-range blocks named.
FeedOutOfRange ==
    /\ Len(history) < MaxPackets
    /\ \E indices \in OutOfRangeIndices(num_blocks) :
           AddPacket(indices,
                     IF InRange(indices, num_blocks) = <<>>
                     THEN [j \in 1..block_size |-> 0]
                     ELSE EncodePacket(file_data, block_size,
                                       InRange(indices, num_blocks)))

\* decoder.add_packet(indices, packet) with a payload one byte short: an
\* encoder packet of degree 1 or 2 that lost its last byte.
FeedShort ==
    /\ Len(history) < MaxPackets
    /\ \E p \in lt_encoder(file_data, block_size) :
           /\ Len(p.indices) <= 2
           /\ AddPacket(p.indices, SubSeq(p.pkt, 1, block_size - 1))

HostileNext == Feed \/ FeedOutOfRange \/ FeedShort

HostileSpec == Init /\ [][HostileNext]_vars

\* C11 (index range): an add_packet call whose index list holds an address
\* >= num_blocks is refused and leaves recovered, the stored packets, the
\* adjacency and the ripple as they were.
IndexRangeRefused ==
    [][(/\ Len(history') = Len(history) + 1
        /\ \E j \in 1..Len(history'[Len(history')].indices) :
               history'[Len(history')].indices[j] >= num_blocks)
       => UNCHANGED <<recovered, packets, block_to_packets, ripple, simulator>>]_vars

\* C12 (payload length): an add_packet call whose payload is not block_size
\* bytes long is refused and leaves recovered, the stored packets, the
\* adjacency and the ripple as they were, so no buffer is shortened.
PayloadLengthRefused ==
    [][(/\ Len(history') = Len(history) + 1
        /\ Len(history'[Len(history')].pkt) # block_size)
       => UNCHANGED <<recovered, packets, block_to_packets, ripple, simulator>>]_vars

\* The step is an add_packet call whose (indices, pkt) was ingested before.
DuplicateCall ==
    /\ Len(history') = Len(history) + 1
    /\ \E j \in 1..Len(history) : history[j] = history'[Len(history')]

\* C13 as stated (duplicates): a packet identical to one ingested earlier
\* either is discarded as redundant (all its blocks are recovered, nothing
\* is stored) or contributes no new adjacency edge.
DuplicateAddsNoEdge ==
    [][DuplicateCall =>
          \/ /\ \A j \in 1..Len(history'[Len(history')].indices) :
                    history'[Len(history')].indices[j] \in DOMAIN recovered
             /\ packets' = packets
          \/ block_to_packets' = block_to_packets]_vars

\* C13 (duplicates, as the code has it): a packet identical to one ingested
\* earlier recovers nothing and releases nothing.  If all its blocks are
\* recovered it is discarded; otherwise it is stored as one more residual
\* packet, a copy of a stored residual packet with two or more indices, and
\* gets its own adjacency edge on each of those indices and no other.
DuplicateSafe ==
    [][DuplicateCall =>
          /\ recovered' = recovered
          /\ ripple' = ripple
          /\ IF \A j \in 1..Len(history'[Len(history')].indices) :
                    history'[Len(history')].indices[j] \in DOMAIN recovered
             THEN /\ packets' = packets
                  /\ block_to_packets' = block_to_packets
             ELSE \E p \in PacketIds :
                    /\ Len(S(p)) >= 2
                    /\ packets' = Append(packets, packets[p + 1])
                    /\ \A b \in BlockAddresses :
                           Get(block_to_packets', b) =
                               Get(block_to_packets, b) \cup
                                   (IF InList(b, S(p)) THEN {Len(packets)}
                                    ELSE {})]_vars

\* A degree-3 packet came twice with a recovery in between: the second copy
\* was stored with the two indices still unknown.
DuplicateWitness ==
    /\ Len(history) = 3
    /\ history[3] = history[1]
    /\ Len(history[3].indices) = 3
    /\ Cardinality(DOMAIN recovered) = 1
    /\ Len(packets) = 3
    /\ Len(S(2)) = 2

\* Byte j (from 1) of block i of the payload; zero past the payload's end.
ByteAt(i, j) ==
    IF i * block_size + j <= Len(file_data)
    THEN file_data[i * block_size + j]
    ELSE 0

\* Bit b of the byte x.
Bit(x, b) == (x \div (2 ^ b)) % 2

\* C14 (encoder XOR): every packet the encoder yielded is block_size bytes
\* long, and each bit of it is the parity of that bit over the zero-padded
\* blocks named by its index list.
EncoderXor ==
    \A n \in 1..Len(history) :
        /\ Len(history[n].pkt) = block_size
        /\ \A j \in 1..block_size :
               /\ history[n].pkt[j] \in 0..255
               /\ \A b \in 0..7 :
                      Bit(history[n].pkt[j], b) =
                          Cardinality({m \in 1..Len(history[n].indices) :
                              Bit(ByteAt(history[n].indices[m], j), b) = 1}) % 2

\* The encoder yielded a packet over three blocks, the last one padded, and
\* a packet of the padded block alone.
EncoderXorWitness ==
    /\ Len(history) = 2
    /\ num_blocks = 3
    /\ Len(file_data) % block_size # 0
    /\ Len(history[1].indices) = 3
    /\ history[2].indices = <<2>>

\* C15 (encoder index set): the index list of every packet the encoder
\* yielded has exactly d entries for a degree d the sampler can draw,
\* 1 <= d <= K, and its entries are pairwise distinct addresses in [0, K).
EncoderIndexSet ==
    \A n \in 1..Len(history) :
        LET s == history[n].indices
        IN  /\ \E d \in choose_degree(num_blocks) :
                   /\ 1 <= d
                   /\ d <= num_blocks
                   /\ Len(s) = d
                   /\ s \in sample(num_blocks, d)
            /\ \A a \in 1..Len(s) : s[a] \in 0..(num_blocks - 1)
            /\ \A a, b \in 1..Len(s) : a # b => s[a] # s[b]

\* The encoder yielded packets of the least and of the greatest degree of a
\* three-block payload, the latter not in ascending order.
EncoderIndexSetWitness ==
    /\ Len(history) = 2
    /\ num_blocks = 3
    /\ Len(history[1].indices) = 1
    /\ Len(history[2].indices) = 3
    /\ history[2].indices[1] > history[2].indices[2]

\* A caller is about to plan a file of 0..MaxPlanFileSize bytes under a
\* payload limit of 0..MaxPlanPayload bytes; no encoder or decoder exists.
PlannerInit ==
    /\ planner \in {[file_size |-> fs, max_payload_size |-> mps,
                     status |-> "called", block_size |-> 0] :
                        fs \in 0..MaxPlanFileSize, mps \in 0..MaxPlanPayload}
    /\ file_data = <<>>
    /\ block_size = 0
    /\ num_blocks = 0
    /\ recovered = LTDecoder(0).recovered
    /\ packets = LTDecoder(0).packets
    /\ block_to_packets = LTDecoder(0).block_to_packets
    /\ ripple = LTDecoder(0).ripple
    /\ trace = <<>>
    /\ history = <<>>
    /\ simulator = NoSimulator
    /\ soliton = NoSoliton
    /\ encoder_gen = NoEncoderGen
    /\ frame = NoFrame

\* block_size = choose_block_size(file_size, max_payload_size)
ChooseBlockSize ==
    /\ planner.status = "called"
    /\ \E out \in {choose_block_size(planner.file_size,
                                     planner.max_payload_size)} :
           planner' = [planner EXCEPT !.status = out.status,
                                      !.block_size = out.block_size]
    /\ UNCHANGED <<file_data, block_size, num_blocks, recovered, packets,
                   block_to_packets, ripple, trace, history, encoder_gen,
                   frame, soliton, simulator>>

PlannerNext == ChooseBlockSize

PlannerSpec == PlannerInit /\ [][PlannerNext]_vars

\* block_size satisfies the envelope constraint for file_size under
\* max_payload_size: with K the least count of block_size-byte blocks that
\* hold file_size bytes and m the least count of bytes that hold K bits,
\* m + block_size <= max_payload_size.
Satisfies(file_size, bs, max_payload_size) ==
    \E K \in 0..file_size, m \in 0..file_size :
        /\ K * bs >= file_size
        /\ (K - 1) * bs < file_size
        /\ 8 * m >= K
        /\ 8 * (m - 1) < K
        /\ m + bs <= max_payload_size

\* C16 (planner result fits): a block size that choose_block_size returned
\* is at least 1 and satisfies ceil(K/8) + block_size <= max_payload_size
\* with K = ceil(file_size / block_size).
PlanFits ==
    planner.status = "returned" =>
        /\ planner.block_size >= 1
        /\ Satisfies(planner.file_size, planner.block_size,
                     planner.max_payload_size)

\* The planner returned a block size below max_payload_size - 1: the larger
\* candidate was skipped because its bitmask needs a second byte.
PlanFitsWitness ==
    /\ planner.status = "returned"
    /\ planner.file_size > 0
    /\ planner.block_size < planner.max_payload_size - 1

\* C17 (planner result maximal): no block size greater than the one
\* choose_block_size returned satisfies the constraint.  A block size above
\* max_payload_size never does, so the candidates end there.
PlanMaximal ==
    planner.status = "returned" =>
        \A bs \in (planner.block_size + 1)..planner.max_payload_size :
            ~Satisfies(planner.file_size, bs, planner.max_payload_size)

\* C18 as stated (planner failure): choose_block_size raises exactly when no
\* positive block size satisfies the constraint, which includes every
\* max_payload_size below 2, and a block size it returns satisfies it.
PlanRaisesIffNoPositiveFits ==
    planner.status # "called" =>
        /\ planner.status = "ValueError" <=>
               ~\E bs \in 1..planner.max_payload_size :
                   Satisfies(planner.file_size, bs, planner.max_payload_size)
        /\ planner.max_payload_size < 2 => planner.status = "ValueError"
        /\ planner.status = "returned" =>
               Satisfies(planner.file_size, planner.block_size,
                         planner.max_payload_size)

\* C18 (planner failure, as the code has it): choose_block_size raises
\* exactly when no block size from 1 to max_payload_size - 1 satisfies the
\* constraint, which includes every max_payload_size below 2, and a block
\* size it returns satisfies it.
PlanRaisesIffNoneBelowLimit ==
    planner.status # "called" =>
        /\ planner.status = "ValueError" <=>
               ~\E bs \in 1..(planner.max_payload_size - 1) :
                   Satisfies(planner.file_size, bs, planner.max_payload_size)
        /\ planner.max_payload_size < 2 => planner.status = "ValueError"
        /\ planner.status = "returned" =>
               Satisfies(planner.file_size, planner.block_size,
                         planner.max_payload_size)

\* The planner raised under a payload limit of 3 or more: every candidate
\* block size needs too large a bitmask.
PlanRaisesWitness ==
    /\ planner.status = "ValueError"
    /\ planner.max_payload_size >= 3

\* C19 (empty file): choose_block_size with file_size = 0 raises for every
\* max_payload_size.
PlanRefusesEmptyFile ==
    (planner.file_size = 0 /\ planner.status # "called") =>
        planner.status = "ValueError"

(***************************************************************************)
(* The generator object.  lt_encoder is a generator function: the call     *)
(* lt_encoder(file_data, block_size) runs none of its body and returns a   *)
(* generator; lines 164-171 run at the first next(), and every next()      *)
(* runs the loop body once, up to the yield.  A generator that raised is   *)
(* finished.                                                               *)
(***************************************************************************)

\* The block sizes a caller may hand to lt_encoder.
EncoderBlockSizes == (0 - 2)..3

\* A caller holds a payload of 0..MaxFileSize bytes and a block size and has
\* not created the encoder yet; no decoder exists.
EncoderInit ==
    /\ file_data \in {generate_file(n) : n \in 0..MaxFileSize}
    /\ block_size \in EncoderBlockSizes
    /\ num_blocks = 0
    /\ recovered = LTDecoder(0).recovered
    /\ packets = LTDecoder(0).packets
    /\ block_to_packets = LTDecoder(0).block_to_packets
    /\ ripple = LTDecoder(0).ripple
    /\ trace = <<>>
    /\ history = <<>>
    /\ simulator = NoSimulator
    /\ soliton = NoSoliton
    /\ planner = NoPlanner
    /\ encoder_gen = NoEncoderGen
    /\ frame = NoFrame

\* encoder_gen = lt_encoder(file_data, block_size)
CreateEncoder ==
    /\ encoder_gen.status = "idle"
    /\ encoder_gen' = [status |-> "created", yielded |-> <<>>]
    /\ UNCHANGED <<file_data, block_size, num_blocks, recovered, packets,
                   block_to_packets, ripple, trace, history, planner, frame,
                   soliton, simulator>>

\* next(encoder_gen).  The first call divides by block_size (line 164) and
\* takes math.log(num_blocks / delta) in robust_soliton_distribution
\* (line 171), which raises ValueError for num_blocks <= 0.
NextPacket ==
    /\ encoder_gen.status \in {"created", "suspended"}
    /\ IF block_size = 0
       THEN encoder_gen' = [status |-> "ZeroDivisionError", yielded |-> <<>>]
       ELSE IF NumBlocks(file_data, block_size) <= 0
       THEN encoder_gen' = [status |-> "ValueError", yielded |-> <<>>]
       ELSE \E p \in lt_encoder(file_data, block_size) :
                encoder_gen' = [status |-> "suspended", yielded |-> <<p>>]
    /\ UNCHANGED <<file_data, block_size, num_blocks, recovered, packets,
                   block_to_packets, ripple, trace, history, planner, frame,
                   soliton, simulator>>

EncoderNext == CreateEncoder \/ NextPacket

EncoderSpec == EncoderInit /\ [][EncoderNext]_vars

\* C20 (block_size <= 0 refused at construction): with block_size <= 0 the
\* call lt_encoder(file_data, block_size) reports the error itself, so no
\* generator object exists afterwards, neither waiting for its first next()
\* nor suspended at a yield.
EncoderRefusedAtConstruction ==
    block_size <= 0 => encoder_gen.status \notin {"created", "suspended"}

(***************************************************************************)
(* The frame codec called directly: a caller holds a block count and an    *)
(* index list, calls show_codes.indices_to_bitmask on them, and calls      *)
(* readcodes_zbar.bitmask_to_indices on the bitmask it got, with the same  *)
(* block count.  Both are functions without side effects, so each call is  *)
(* one step.  The index lists are those of distinct addresses below the    *)
(* block count, in every order: the lists random.sample yields, and the    *)
(* empty list.                                                             *)
(***************************************************************************)

\* The caller holds a block count of 1..MaxFrameBlocks; no call is made yet.
CodecInit ==
    /\ num_blocks \in 1..MaxFrameBlocks
    /\ frame = [status |-> "new", indices |-> <<>>,
                bitmask |-> <<>>, decoded |-> <<>>]
    /\ file_data = <<>>
    /\ block_size = 0
    /\ recovered = LTDecoder(num_blocks).recovered
    /\ packets = LTDecoder(num_blocks).packets
    /\ block_to_packets = LTDecoder(num_blocks).block_to_packets
    /\ ripple = LTDecoder(num_blocks).ripple
    /\ trace = <<>>
    /\ history = <<>>
    /\ simulator = NoSimulator
    /\ soliton = NoSoliton
    /\ planner = NoPlanner
    /\ encoder_gen = NoEncoderGen

\* bitmask = indices_to_bitmask(indices, num_blocks), for a list of d
\* distinct addresses below num_blocks, 0 <= d <= num_blocks.
EncodeFrame ==
    /\ frame.status = "new"
    /\ \E d \in 0..num_blocks :
           \E r \in 0..(Arrangements(num_blocks, d) - 1) :
               \E s \in {SampleList(num_blocks, d, r)} :
                   frame' = [status |-> "sent", indices |-> s,
                             bitmask |-> indices_to_bitmask(s, num_blocks),
                             decoded |-> <<>>]
    /\ UNCHANGED <<file_data, block_size, num_blocks, recovered, packets,
                   block_to_packets, ripple, trace, history, planner,
                   encoder_gen, soliton, simulator>>

\* indices = bitmask_to_indices(bitmask, num_blocks)
DecodeFrame ==
    /\ frame.status = "sent"
    /\ frame' = [frame EXCEPT
                   !.status = "received",
                   !.decoded = bitmask_to_indices(frame.bitmask, num_blocks)]
    /\ UNCHANGED <<file_data, block_size, num_blocks, recovered, packets,
                   block_to_packets, ripple, trace, history, planner,
                   encoder_gen, soliton, simulator>>

CodecNext == EncodeFrame \/ DecodeFrame

CodecSpec == CodecInit /\ [][CodecNext]_vars

\* The addresses an index list names.
Elements(list) == {list[j] : j \in 1..Len(list)}

\* C21 (frame round trip): the index list read back from the bitmask of an
\* index list S within [0, K) holds the elements of S in ascending order;
\* so does the list read back from the bitmask of <<9, 3, 0>> for 10 blocks.
FrameRoundTrip ==
    /\ frame.status = "received" =>
           /\ Elements(frame.decoded) = Elements(frame.indices)
           /\ \A a, b \in 1..Len(frame.decoded) :
                  a < b => frame.decoded[a] < frame.decoded[b]
    /\ bitmask_to_indices(indices_to_bitmask(<<9, 3, 0>>, 10), 10)
           = <<0, 3, 9>>

\* An unsorted index list of degree 5 over both bytes of a 9-block bitmask
\* went through the codec.
FrameRoundTripWitness ==
    /\ frame.status = "received"
    /\ num_blocks = 9
    /\ frame.indices = <<8, 3, 0, 7, 5>>
    /\ frame.decoded = <<0, 3, 5, 7, 8>>

\* C22 (bitmask layout): the bitmask of S within [0, K) has ceil(K/8) bytes,
\* and bit (i mod 8) of byte ceil(K/8) - 1 - (i div 8), counted from 0, is
\* set exactly if i is in S; so no bit at a position >= K is set.  K = 10
\* and S = {0, 3, 9} give the bytes 0x02, 0x09.
BitmaskLayout ==
    frame.status \in {"sent", "received"} =>
        \E n \in 1..num_blocks :
            /\ 8 * n >= num_blocks
            /\ 8 * (n - 1) < num_blocks
            /\ Len(frame.bitmask) = n
            /\ \A j \in 1..n : frame.bitmask[j] \in 0..255
            /\ \A i \in 0..(8 * n - 1) :
                   Bit(frame.bitmask[(n - 1 - (i \div 8)) + 1], i % 8) = 1
                       <=> i \in Elements(frame.indices)
            /\ indices_to_bitmask(<<0, 3, 9>>, 10) = <<2, 9>>

\* The bitmask of {0, 3, 8} for 9 blocks was built: bit 0 of the first
\* byte, bits 0 and 3 of the second.
BitmaskLayoutWitness ==
    /\ frame.status = "sent"
    /\ num_blocks = 9
    /\ frame.indices = <<0, 3, 8>>
    /\ frame.bitmask = <<1, 9>>

(***************************************************************************)
(* The planner at the program's own limits.  show_codes.py, line 74,      *)
(* calls choose_block_size(filesize, MAX_PAYLOAD_SIZE) with the constant   *)
(* it imports from tools.py (line 25).  Here the loop of choose_block_size *)
(* runs one iteration per step; planner.block_size is the loop variable    *)
(* while planner.status is "loop".                                         *)
(***************************************************************************)

MAX_PAYLOAD_SIZE == 2210

MAX_FILE_SIZE == 9785888

\* The file sizes planned under MAX_PAYLOAD_SIZE: the permitted maximum, one
\* byte more, and half the maximum.
LimitFileSizes == {MAX_FILE_SIZE, MAX_FILE_SIZE + 1, MAX_FILE_SIZE \div 2}

LimitInit ==
    /\ planner \in {[file_size |-> fs, max_payload_size |-> MAX_PAYLOAD_SIZE,
                     status |-> "called", block_size |-> 0] :
                        fs \in LimitFileSizes}
    /\ file_data = <<>>
    /\ block_size = 0
    /\ num_blocks = 0
    /\ recovered = LTDecoder(0).recovered
    /\ packets = LTDecoder(0).packets
    /\ block_to_packets = LTDecoder(0).block_to_packets
    /\ ripple = LTDecoder(0).ripple
    /\ trace = <<>>
    /\ history = <<>>
    /\ simulator = NoSimulator
    /\ soliton = NoSoliton
    /\ encoder_gen = NoEncoderGen
    /\ frame = NoFrame

\* for block_size in range(max_payload_size - 1, 0, -1): the loop is entered
EnterLoop ==
    /\ planner.status = "called"
    /\ planner' = [planner EXCEPT !.status = "loop",
                                  !.block_size = planner.max_payload_size - 1]
    /\ UNCHANGED <<file_data, block_size, num_blocks, recovered, packets,
                   block_to_packets, ripple, trace, history, encoder_gen,
                   frame, soliton, simulator>>

\* One iteration: the range is used up (raise ValueError), or the block
\* size fits (return it), or the next lower block size is tried.
LoopStep ==
    /\ planner.status = "loop"
    /\ planner' =
           IF planner.block_size < 1
           THEN [planner EXCEPT !.status = "ValueError", !.block_size = 0]
           ELSE IF CeilDiv(CeilDiv(planner.file_size, planner.block_size), 8)
                       + planner.block_size <= planner.max_payload_size
           THEN [planner EXCEPT !.status = "returned"]
           ELSE [planner EXCEPT !.block_size = planner.block_size - 1]
    /\ UNCHANGED <<file_data, block_size, num_blocks, recovered, packets,
                   block_to_packets, ripple, trace, history, encoder_gen,
                   frame, soliton, simulator>>

LimitNext == EnterLoop \/ LoopStep

LimitSpec == LimitInit /\ [][LimitNext]_vars

\* C23 (MAX_FILE_SIZE): choose_block_size(MAX_FILE_SIZE, MAX_PAYLOAD_SIZE)
\* does not raise and the block size it returns satisfies
\* ceil(K/8) + block_size <= MAX_PAYLOAD_SIZE, while a larger file size is
\* not given a block size.
MaxFileSizeIsPlanned ==
    /\ planner.file_size = MAX_FILE_SIZE => planner.status # "ValueError"
    /\ (planner.file_size = MAX_FILE_SIZE /\ planner.status = "returned") =>
           CeilDiv(CeilDiv(planner.file_size, planner.block_size), 8)
               + planner.block_size <= MAX_PAYLOAD_SIZE
    /\ planner.file_size > MAX_FILE_SIZE => planner.status # "returned"

(***************************************************************************)
(* robust_soliton_distribution applied to block counts 1..MaxSolitonK, a   *)
(* few constants c > 0 and a few failure probabilities 0 < delta < 1; the  *)
(* defaults of the code are c = 0.1 and delta = 0.5.                       *)
(***************************************************************************)

\* c: 0.05, 0.1 and 0.2, scaled
SolitonC == {Scale \div 20, Scale \div 10, Scale \div 5}

\* delta: 0.1, 0.5 and 0.9, scaled
SolitonDelta == {Scale \div 10, Scale \div 2, (9 * Scale) \div 10}

SolitonInit ==
    /\ soliton \in {[status |-> "called", k |-> k, c |-> c, delta |-> delta,
                     mu |-> <<>>] :
                        k \in 1..MaxSolitonK, c \in SolitonC,
                        delta \in SolitonDelta}
    /\ file_data = <<>>
    /\ block_size = 0
    /\ num_blocks = 0
    /\ recovered = LTDecoder(0).recovered
    /\ packets = LTDecoder(0).packets
    /\ block_to_packets = LTDecoder(0).block_to_packets
    /\ ripple = LTDecoder(0).ripple
    /\ trace = <<>>
    /\ history = <<>>
    /\ simulator = NoSimulator
    /\ planner = NoPlanner
    /\ encoder_gen = NoEncoderGen
    /\ frame = NoFrame

\* mu = robust_soliton_distribution(k, c, delta)
ComputeSoliton ==
    /\ soliton.status = "called"
    /\ soliton' = [soliton EXCEPT
                     !.status = "returned",
                     !.mu = robust_soliton_distribution(soliton.k, soliton.c,
                                                        soliton.delta)]
    /\ UNCHANGED <<file_data, block_size, num_blocks, recovered, packets,
                   block_to_packets, ripple, trace, history, planner,
                   encoder_gen, frame, simulator>>

SolitonNext == ComputeSoliton

SolitonSpec == SolitonInit /\ [][SolitonNext]_vars

\* C24 (the distribution is a probability vector): for k >= 1, c > 0 and
\* 0 < delta < 1 the vector returned has k entries, none of them negative,
\* and they sum to 1 (here: to within the rounding of k scaled entries);
\* k = 1 gives [1.0].
SolitonIsDistribution ==
    soliton.status = "returned" =>
        /\ Len(soliton.mu) = soliton.k
        /\ \A d \in 1..Len(soliton.mu) : soliton.mu[d] >= 0
        /\ Sum(soliton.mu, 1) \in (Scale - soliton.k)..(Scale + soliton.k)
        /\ soliton.k = 1 => soliton.mu = <<Scale>>

(***************************************************************************)
(* Cascades.  The decoder is fed packets over runs of consecutive block    *)
(* addresses, {i, ..., j}: such packets overlap in chains, so one packet   *)
(* of degree 1 can set off a cascade, and two packets can reach degree 1   *)
(* in the same pass.  Payloads of 5 and 7 bytes in blocks of 2 bytes give  *)
(* 3 and 4 blocks.                                                         *)
(***************************************************************************)

\* Greatest number of add_packet calls in a cascade run.
MaxCascade == 4

\* The index list i, i + 1, ..., j.
Run(i, j) == [n \in 1..(j - i + 1) |-> i + n - 1]

CascadeInit ==
    /\ file_data \in {generate_file(5), generate_file(7)}
    /\ block_size = 2
    /\ num_blocks = NumBlocks(file_data, block_size)
    /\ recovered = LTDecoder(num_blocks).recovered
    /\ packets = LTDecoder(num_blocks).packets
    /\ block_to_packets = LTDecoder(num_blocks).block_to_packets
    /\ ripple = LTDecoder(num_blocks).ripple
    /\ trace = <<>>
    /\ history = <<>>
    /\ simulator = NoSimulator
    /\ soliton = NoSoliton
    /\ planner = NoPlanner
    /\ encoder_gen = NoEncoderGen
    /\ frame = NoFrame

\* while not decoder.is_complete(): decoder.add_packet(indices, pkt), for
\* the encoder's packet over a run of consecutive addresses.
FeedRun ==
    /\ Len(history) < MaxCascade
    /\ ~is_complete(decoder)
    /\ \E i \in 0..(num_blocks - 1) :
           \E j \in i..(num_blocks - 1) :
               AddPacket(Run(i, j), EncodePacket(file_data, block_size, Run(i, j)))

CascadeNext == FeedRun

CascadeSpec == CascadeInit /\ [][CascadeNext]_vars

\* The block addresses of the trace events of one kind, in order.
BlocksOf(kind) ==
    LET events == SelectSeq(trace, LAMBDA e : e.ev = kind)
    IN  [n \in 1..Len(events) |-> events[n].block]

\* The index lists of the calls so far.
IndexLists == [n \in 1..Len(history) |-> history[n].indices]

\* C25 (FIFO ripple): blocks are dequeued in the order in which they were
\* released, that is, in which their packets reached degree 1.  For four
\* blocks and the packets {0,1,2,3}, {1,2,3}, {2,3}, {3} in that order,
\* nothing is recovered before the fourth call, and the fourth call
\* releases 3, 2, 1, 0 in that order and completes the decoder.
FifoRipple ==
    /\ BlocksOf("dequeue") = BlocksOf("release")
    /\ (/\ num_blocks = 4
        /\ Len(history) <= 3
        /\ IndexLists = SubSeq(<<Run(0, 3), Run(1, 3), Run(2, 3), Run(3, 3)>>,
                               1, Len(history)))
           => DOMAIN recovered = {}
    /\ (/\ num_blocks = 4
        /\ IndexLists = <<Run(0, 3), Run(1, 3), Run(2, 3), Run(3, 3)>>)
           => /\ BlocksOf("release") = <<3, 2, 1, 0>>
              /\ is_complete(decoder)

\* Two blocks waited in the ripple together: packets {0,1} and {1,2} both
\* reached degree 1 when block 1 was propagated, and 0 left the ripple
\* before 2.
FifoRippleWitness ==
    /\ IndexLists = <<Run(0, 1), Run(1, 2), Run(1, 1)>>
    /\ BlocksOf("release") = <<1, 0, 2>>
    /\ BlocksOf("dequeue") = <<1, 0, 2>>

\* C26 (released once, dequeued once): over the whole life of the decoder
\* every block address is written into recovered and appended to the
\* ripple at most once, and is taken from the ripple at most once.
ReleasedOnce ==
    \A b \in BlockAddresses :
        /\ Cardinality({k \in Events("release") : trace[k].block = b}) <= 1
        /\ Cardinality({k \in Events("dequeue") : trace[k].block = b}) <= 1

\* The same packet over two blocks was stored twice and then one of its
\* blocks arrived: both copies were reduced to a singleton for the other
\* block, which was released once.
ReleasedOnceWitness ==
    /\ Len(history) = 3
    /\ history[1] = history[2]
    /\ Len(history[1].indices) = 2
    /\ Len(history[3].indices) = 1
    /\ InList(history[3].indices[1], history[1].indices)
    /\ Cardinality(Events("release")) = 2
    /\ Cardinality(Events("dequeue")) = 2
    /\ Cardinality(Events("remove")) = 5

\* The number of indices stored packet p had just before the edge removal
\* recorded at trace position k: every removal takes one index away.
SizeBefore(p, k) ==
    Len(S(p)) + Cardinality({j \in Events("remove") :
                                 j >= k /\ trace[j].packet = p})

\* C27 as stated (inert at one index): once a stored packet has at most one
\* index, no later step changes it; so every edge removal finds its packet
\* with two or more indices.
InertAtOne ==
    \A k \in Events("remove") : SizeBefore(trace[k].packet, k) >= 2

\* C27 (inert when empty, as the code has it): a stored packet with an empty
\* index list is not changed by any later call.  A packet with exactly one
\* index is changed once more, when that block leaves the ripple: the index
\* is removed, so after every call no stored packet has exactly one index.
InertWhenEmpty ==
    [][/\ \A p \in PacketIds :
              S(p) = <<>> => packets'[p + 1] = packets[p + 1]
       /\ \A p \in 1..Len(packets') : Len(packets'[p].indices) # 1]_vars

\* A packet stored with two indices was taken down to one index and then to
\* none within one call, and the next call left it as it was.
InertWhenEmptyWitness ==
    /\ Len(history) = 3
    /\ Len(history[1].indices) = 2
    /\ Len(Replay(history, 1).packets) = 1
    /\ Replay(history, 2).packets[1].indices = <<>>
    /\ S(0) = <<>>
    /\ SizeBefore(0, 1) >= 1
    /\ \E k \in Events("remove") : trace[k].packet = 0 /\ SizeBefore(0, k) = 1

(***************************************************************************)
(* LTDecoder called directly: a client builds a decoder for a payload of   *)
(* four distinct bytes in two blocks, or of three blocks whose last block  *)
(* is padded, and calls add_packet with packets of the encoder in any      *)
(* number, whether or not the decoder is complete (the class has no such   *)
(* precondition; the loop of prototype.py stops at is_complete()).         *)
(***************************************************************************)

\* The payload 0xA0 0xB0 0xC0 0xD0.
ManualPayload == <<160, 176, 192, 208>>

ManualInit ==
    /\ file_data \in {ManualPayload, generate_file(5)}
    /\ block_size = 2
    /\ num_blocks = NumBlocks(file_data, block_size)
    /\ recovered = LTDecoder(num_blocks).recovered
    /\ packets = LTDecoder(num_blocks).packets
    /\ block_to_packets = LTDecoder(num_blocks).block_to_packets
    /\ ripple = LTDecoder(num_blocks).ripple
    /\ trace = <<>>
    /\ history = <<>>
    /\ simulator = NoSimulator
    /\ soliton = NoSoliton
    /\ planner = NoPlanner
    /\ encoder_gen = NoEncoderGen
    /\ frame = NoFrame

\* decoder.add_packet(indices, pkt), for any packet of the encoder and any
\* decoder state.
FeedManual ==
    /\ Len(history) < MaxPackets
    /\ \E p \in lt_encoder(file_data, block_size) : AddPacket(p.indices, p.pkt)

ManualNext == FeedManual

ManualSpec == ManualInit /\ [][ManualNext]_vars

\* pkt XORed with rec[indices[j]] for every position j of indices but skip.
RECURSIVE XorOthers(_, _, _, _, _)
XorOthers(pkt, rec, indices, skip, n) ==
    IF n = 0 THEN pkt
    ELSE LET rest == XorOthers(pkt, rec, indices, skip, n - 1)
         IN  IF n = skip THEN rest ELSE XorBytes(rest, rec[indices[n]])

\* The two calls of the two-block example: ({0}, A0 B0), ({0,1}, 60 60).
ManualCalls ==
    << [indices |-> <<0>>, pkt |-> <<160, 176>>],
       [indices |-> <<0, 1>>, pkt |-> <<96, 96>>] >>

\* C28 (ingest-time elimination): when add_packet is given a packet in which
\* every index but one, b, is already recovered, then on return b is
\* recovered and recovered[b] is the payload XORed with the recovered blocks
\* of the other indices; after ({0}, A0 B0) and ({0,1}, 60 60) on two blocks,
\* recovered[1] is C0 D0.
IngestElimination ==
    /\ history # <<>> =>
           LET rec    == Before.recovered
               call   == LastCall
               unrec  == {j \in 1..Len(call.indices) :
                              call.indices[j] \notin DOMAIN rec}
           IN  \A j \in unrec :
                   unrec = {j} =>
                       /\ call.indices[j] \in DOMAIN recovered
                       /\ recovered[call.indices[j]] =
                              XorOthers(call.pkt, rec, call.indices, j,
                                        Len(call.indices))
    /\ history = ManualCalls =>
           /\ Replay(history, 1).recovered = (0 :> <<160, 176>>)
           /\ recovered = (0 :> <<160, 176>>) @@ (1 :> <<192, 208>>)

\* A packet over all three blocks arrived when two of them were recovered.
IngestEliminationWitness ==
    /\ Len(history) = 3
    /\ Len(history[3].indices) = 3
    /\ Cardinality(DOMAIN Before.recovered) = 2
    /\ Cardinality(DOMAIN recovered) = 3
    /\ Len(packets) = 3


\* C29 (incremental decoding equals batch peeling): the set of block
\* addresses the decoder has recovered after ingesting the packets one at a
\* time equals the recovered set simulate_peeling returns for the whole list
\* of their index lists.
IncrementalEqualsBatch ==
    DOMAIN recovered = simulate_peeling(IndexLists).recovered

\* Three packets over three blocks with one singleton, fed largest first:
\* the batch loop needs three rounds, the decoder recovers everything in
\* its third call.
IncrementalEqualsBatchWitness ==
    /\ IndexLists = << <<0, 1, 2>>, <<1, 2>>, <<2>> >>
    /\ Singletons(IndexLists) = {2}
    /\ Before.recovered = << >>
    /\ DOMAIN recovered = {0, 1, 2}


\* The stored packets whose last index was b: b was removed from them when
\* they held nothing else.
LastIndexWas(b) ==
    {p \in PacketIds :
        \E k \in Events("remove") :
            /\ trace[k].packet = p
            /\ trace[k].block = b
            /\ SizeBefore(p, k) = 1}

\* C30 (recovered blocks are bounded by stored packets): the number of
\* recovered blocks is at most the number of stored residual packets, every
\* recovered block was the last index of a stored packet of its own, and so
\* is_complete() holds only after at least num_blocks packets were stored
\* (the non-redundant ones among the calls made).
RecoveredWithinStored ==
    /\ Cardinality(DOMAIN recovered) <= Len(packets)
    /\ Len(packets) <= Len(history)
    /\ \A b \in DOMAIN recovered : LastIndexWas(b) # {}
    /\ \A b, c \in DOMAIN recovered :
           b # c => LastIndexWas(b) \cap LastIndexWas(c) = {}
    /\ is_complete(decoder) => Len(packets) >= num_blocks

\* Four blocks were completed by exactly four stored packets, the last call
\* recovering all of them.
RecoveredWithinStoredWitness ==
    /\ num_blocks = 4
    /\ Len(history) = 4
    /\ Len(packets) = 4
    /\ Before.recovered = << >>
    /\ is_complete(decoder)


(***************************************************************************)
(* The two planners called on the same file size and envelope:             *)
(* tools.choose_block_size and showcodes_header.cal_size.  planner.cal is  *)
(* "called" until cal_size has returned, then its outcome.                 *)
(***************************************************************************)

EnvelopeInit ==
    /\ planner \in {[file_size |-> fs, max_payload_size |-> mps,
                     status |-> "called", block_size |-> 0,
                     cal |-> [status |-> "called", k |-> 0, block_size |-> 0]] :
                        fs \in 0..MaxPlanFileSize, mps \in 0..MaxPlanPayload}
    /\ file_data = <<>>
    /\ block_size = 0
    /\ num_blocks = 0
    /\ recovered = LTDecoder(0).recovered
    /\ packets = LTDecoder(0).packets
    /\ block_to_packets = LTDecoder(0).block_to_packets
    /\ ripple = LTDecoder(0).ripple
    /\ trace = <<>>
    /\ history = <<>>
    /\ simulator = NoSimulator
    /\ soliton = NoSoliton
    /\ encoder_gen = NoEncoderGen
    /\ frame = NoFrame

\* cal_size(file_size, qr_size) with qr_size the same envelope
CalSize ==
    /\ planner.cal.status = "called"
    /\ \E out \in {cal_size(planner.file_size, planner.max_payload_size)} :
           planner' = [planner EXCEPT !.cal = out]
    /\ UNCHANGED <<file_data, block_size, num_blocks, recovered, packets,
                   block_to_packets, ripple, trace, history, encoder_gen,
                   frame, soliton, simulator>>

EnvelopeNext == ChooseBlockSize \/ CalSize

EnvelopeSpec == EnvelopeInit /\ [][EnvelopeNext]_vars

\* C31 (the planner fills the envelope exactly): for file_size >= 1 a block
\* size that choose_block_size returned satisfies
\* ceil(K/8) + block_size = max_payload_size with K = ceil(file_size /
\* block_size); cal_size on the same inputs returns the same block size
\* (with that K), and returns None exactly when choose_block_size raised.
PlanFillsEnvelope ==
    planner.file_size >= 1 =>
        /\ planner.status = "returned" =>
               CeilDiv(CeilDiv(planner.file_size, planner.block_size), 8)
                   + planner.block_size = planner.max_payload_size
        /\ (planner.status # "called" /\ planner.cal.status # "called") =>
               /\ planner.cal.status = "None" <=> planner.status = "ValueError"
               /\ planner.status = "returned" =>
                      /\ planner.cal.status = "returned"
                      /\ planner.cal.block_size = planner.block_size
                      /\ planner.cal.k = CeilDiv(planner.file_size,
                                                 planner.block_size)

\* Both planners returned block size 4 for 30 bytes under an envelope of 5,
\* where block size 3 fills the envelope too.
PlanFillsEnvelopeWitness ==
    /\ planner.file_size = 30
    /\ planner.max_payload_size = 5
    /\ planner.status = "returned"
    /\ planner.block_size = 4
    /\ planner.cal = [status |-> "returned", k |-> 8, block_size |-> 4]
    /\ CeilDiv(CeilDiv(30, 3), 8) + 3 = 5


\* pkt XORed with rec[i] for each of the first n indices that rec holds.
RECURSIVE XorRecovered(_, _, _, _)
XorRecovered(pkt, rec, indices, n) ==
    IF n = 0 THEN pkt
    ELSE LET rest == XorRecovered(pkt, rec, indices, n - 1)
         IN  IF indices[n] \in DOMAIN rec
             THEN XorBytes(rest, rec[indices[n]])
             ELSE rest

\* The indices of a call that are not recovered when the call is made.
Residual(indices) == SelectSeq(indices, LAMBDA i : i \notin DOMAIN recovered)

\* C32 (a packet with two or more residual indices is only stored): a call
\* whose indices, less the recovered ones, number two or more appends one
\* residual packet and its adjacency edges; recovered is unchanged, the
\* ripple stays empty, nothing is released, dequeued or removed, and every
\* packet stored before is unchanged.
StoreOnly ==
    [][LET call == history'[Len(history')]
           res  == Residual(call.indices)
       IN  Len(res) >= 2 =>
               /\ recovered' = recovered
               /\ ripple = <<>> /\ ripple' = <<>>
               /\ trace' = trace
               /\ packets' = Append(packets,
                      [indices |-> res,
                       pkt |-> XorRecovered(call.pkt, recovered, call.indices,
                                            Len(call.indices))])
               /\ \A b \in BlockAddresses :
                      Get(block_to_packets', b) =
                          Get(block_to_packets, b) \cup
                              (IF InList(b, res) THEN {Len(packets)} ELSE {})
      ]_vars

\* A packet over three blocks arrived when one of them was recovered and
\* another packet was stored: it was stored with its two other indices.
StoreOnlyWitness ==
    /\ Len(history) = 3
    /\ Len(history[3].indices) = 3
    /\ Cardinality(DOMAIN Before.recovered) = 1
    /\ Len(Before.packets) = 2
    /\ Len(packets) = 3
    /\ Len(S(2)) = 2
    /\ recovered = Before.recovered


\* The recovered blocks of the addresses that are in the index list old but
\* not in the index list new.
RemovedBlocks(old, new) ==
    [b \in {old[j] : j \in 1..Len(old)} \ {new[j] : j \in 1..Len(new)} |->
        recovered'[b]]

\* C33 (monotonic progress): over every add_packet call the set of recovered
\* addresses does not shrink, the packet list does not shrink, and every
\* stored packet keeps its position: the packet at an old position is the
\* old packet less the indices peeled from it, with their blocks XORed out.
\* Hence a decoder that is complete stays complete.
MonotonicProgress ==
    [][/\ DOMAIN recovered \subseteq DOMAIN recovered'
       /\ Len(packets') >= Len(packets)
       /\ \A p \in 1..Len(packets) :
              LET old == packets[p]
                  new == packets'[p]
              IN  /\ new.indices =
                         SelectSeq(old.indices,
                                   LAMBDA i : InList(i, new.indices))
                  /\ new.pkt =
                         XorRecovered(old.pkt,
                                      RemovedBlocks(old.indices, new.indices),
                                      old.indices, Len(old.indices))
       /\ is_complete(decoder) =>
              Cardinality(DOMAIN recovered') = num_blocks
      ]_vars

\* Two blocks were completed by the second call, which peeled the packet
\* stored by the first; a third call was made on the complete decoder.
MonotonicProgressWitness ==
    /\ num_blocks = 2
    /\ Len(history) = 3
    /\ Len(Replay(history, 1).packets) = 1
    /\ Len(Replay(history, 1).packets[1].indices) = 2
    /\ is_complete(Before)
    /\ S(0) = <<>>
    /\ is_complete(decoder)


\* The number of adjacency edges inserted by the first n calls: a call
\* inserts one edge for each of its indices not recovered when it is made.
RECURSIVE EdgesInserted(_)
EdgesInserted(n) ==
    IF n = 0 THEN 0
    ELSE LET rec == Replay(history, n - 1).recovered
         IN  EdgesInserted(n - 1)
             + Len(SelectSeq(history[n].indices,
                             LAMBDA i : i \notin DOMAIN rec))

\* The number of adjacency edges now held, over the first n block addresses.
RECURSIVE EdgesHeld(_)
EdgesHeld(n) ==
    IF n = 0 THEN 0
    ELSE EdgesHeld(n - 1) + Cardinality(Get(block_to_packets, n - 1))

\* C34 (every call terminates within its budget): every add_packet call
\* returns with the ripple empty; over the life of the decoder no block
\* address is dequeued twice, so there are at most num_blocks dequeues, and
\* the edge removals number at most the edges ever inserted (each removal
\* takes away one inserted edge: removals plus edges held equal edges
\* inserted).
PeelingBounded ==
    /\ ripple = <<>>
    /\ \A j, k \in Events("dequeue") : trace[j].block = trace[k].block => j = k
    /\ Cardinality(Events("dequeue")) <= num_blocks
    /\ Cardinality(Events("remove")) <= EdgesInserted(Len(history))
    /\ Cardinality(Events("remove")) + EdgesHeld(num_blocks)
           = EdgesInserted(Len(history))

\* Three blocks were dequeued over three calls and all six inserted edges
\* were removed.
PeelingBoundedWitness ==
    /\ num_blocks = 3
    /\ Len(history) = 3
    /\ Cardinality(Events("dequeue")) = 3
    /\ EdgesInserted(3) = 6
    /\ Cardinality(Events("remove")) = 6


(***************************************************************************)
(* simulate_decode.simulate_index_only_decoding beside the driver: every   *)
(* index list fed to the decoder is fed to an IndexOnlyLTDecoder as well.  *)
(***************************************************************************)

SimulatorInit ==
    /\ file_data \in {generate_file(3), generate_file(5)}
    /\ block_size = 2
    /\ num_blocks = NumBlocks(file_data, block_size)
    /\ recovered = LTDecoder(num_blocks).recovered
    /\ packets = LTDecoder(num_blocks).packets
    /\ block_to_packets = LTDecoder(num_blocks).block_to_packets
    /\ ripple = LTDecoder(num_blocks).ripple
    /\ trace = <<>>
    /\ history = <<>>
    /\ simulator = IndexOnlyLTDecoder(num_blocks)
    /\ soliton = NoSoliton
    /\ planner = NoPlanner
    /\ encoder_gen = NoEncoderGen
    /\ frame = NoFrame

\* decoder.add_packet(indices, pkt) and simulator.add_packet(indices) for
\* one packet of the encoder; simulate_index_only_decoding leaves its loop
\* once the simulator is complete.
FeedBoth ==
    /\ Len(history) < MaxPackets
    /\ ~IndexOnly_is_complete(simulator)
    /\ \E p \in lt_encoder(file_data, block_size) :
           /\ \E after \in {add_packet(decoder, p.indices, p.pkt)} :
                  /\ recovered' = after.recovered
                  /\ packets' = after.packets
                  /\ block_to_packets' = after.block_to_packets
                  /\ ripple' = after.ripple
                  /\ trace' = after.trace
           /\ \E sim \in {IndexOnly_add_packet(simulator, p.indices)} :
                  simulator' = sim
           /\ history' = Append(history, [indices |-> p.indices, pkt |-> p.pkt])
    /\ UNCHANGED <<file_data, block_size, num_blocks, planner, encoder_gen,
                   frame, soliton>>

SimulatorNext == FeedBoth

SimulatorSpec == SimulatorInit /\ [][SimulatorNext]_vars

\* C35 (the index-only simulator agrees with the decoder): after every
\* add_packet the simulator's recovered set is the key set of the decoder's
\* recovered, the residual index lists of the two are the same list, and
\* both give the same is_complete(); this holds although the simulator may
\* append one block to its ripple more than once.
SimulatorAgrees ==
    /\ simulator.recovered = DOMAIN recovered
    /\ simulator.packets = [p \in 1..Len(packets) |-> packets[p].indices]
    /\ simulator.ripple = <<>>
    /\ IndexOnly_is_complete(simulator) <=> is_complete(decoder)

\* Two copies of a packet over blocks 0 and 1 were stored, then block 0
\* arrived: the simulator appended block 1 to its ripple twice, the decoder
\* released it once.
SimulatorAgreesWitness ==
    /\ Len(history) = 3
    /\ simulator.enqueued = <<0, 1, 1>>
    /\ BlocksOf("release") = <<0, 1>>
    /\ simulator.recovered = {0, 1}
    /\ simulator.packets = << <<>>, <<>>, <<>> >>

=============================================================================
